---- MODULE Spec2Model ----
(***************************************************************************)
(* A model of the insurance funnel automation:                             *)
(*   - InsuranceFormAutomator.fillMultiVehicleDriverForm and               *)
(*     handleConditionalSteps (the funnel state machine), run against a    *)
(*     browser page whose location and DOM markers the site decides;       *)
(*   - AutomationController.submitCompleteForm (request validation,        *)
(*     browser acquisition and release, the response);                     *)
(*   - the make/model dropdown matching of handleVehicleDetailsForm and    *)
(*     fillAdditionalVehicleDetails;                                       *)
(*   - the interaction primitives clickButton and clearAndType;            *)
(*   - quote extraction: handleQuoteResultsStep and                        *)
(*     extractQuotesFromCurrentPage.                                       *)
(***************************************************************************)
EXTENDS Integers, Sequences, FiniteSets, TLC

(***************************************************************************)
(* Bounds of the model.                                                    *)
(***************************************************************************)
MaxVehicles == 2
MaxDrivers == 2
MaxQuotes == 2

(***************************************************************************)
(* String.prototype.includes: t occurs in s as a contiguous substring.     *)
(* The empty string is included in every string.                           *)
(***************************************************************************)
Includes(s, t) ==
  \E i \in 1..(Len(s) - Len(t) + 1) : SubSeq(s, i, i + Len(t) - 1) = t

\* String.prototype.toLowerCase, on the letters that occur in the model.
LowerChar(c) ==
  CASE c = "A" -> "a"
    [] c = "C" -> "c"
    [] c = "I" -> "i"
    [] c = "S" -> "s"
    [] c = "T" -> "t"
    [] c = "V" -> "v"
    [] OTHER -> c

RECURSIVE toLowerCase(_)
toLowerCase(s) ==
  IF Len(s) = 0
  THEN ""
  ELSE LowerChar(SubSeq(s, 1, 1)) \o toLowerCase(SubSeq(s, 2, Len(s)))

(***************************************************************************)
(* The browser page as the automator observes it: page.url() and the set   *)
(* of stage markers page.$ finds.  The site decides both.  FunnelPages     *)
(* lists the funnel's pages in funnel order, each with the location        *)
(* fragment and the marker the code tests for that stage.  The second page *)
(* is the address-confirmation interstitial analyzeSubmissionResult looks  *)
(* for after the first submit: no stage test matches it.                   *)
(***************************************************************************)
FunnelPages ==
  << [url |-> "/auto",                 marker |-> ""],
     [url |-> "/auto",                 marker |-> "#addressConfirmsection"],
     [url |-> "/auto/Prefill",         marker |-> ""],
     [url |-> "/auto/VehicleUsage",    marker |-> "#pg2"],
     [url |-> "/auto/VehicleList",     marker |-> "#pg3"],
     [url |-> "/auto/Driver",          marker |-> "#pg4"],
     [url |-> "/auto/DriverList",      marker |-> "#pg5"],
     [url |-> "/auto/PolicyInfo",      marker |-> "#pg6"],
     [url |-> "/auto/CoverageOptions", marker |-> "#pg7"],
     [url |-> "/auto/PropertyInfo",    marker |-> "#pg8"],
     [url |-> "/auto/QuoteResults",    marker |-> "#pgResults"],
     [url |-> "/auto/ContactMethod",   marker |-> "#pgContactMethod"],
     [url |-> "/auto/AlsoInterested",  marker |-> "#pgAddlLob"],
     [url |-> "/auto/ThankYou",        marker |-> "#pgThankYou"],
     [url |-> "/auto/Complete",        marker |-> "#pgThankYou"] >>

Positions == 1..Len(FunnelPages)

MarkersOf(k) == IF FunnelPages[k].marker = "" THEN {} ELSE {FunnelPages[k].marker}

\* The pages the site shows: each funnel page with its location and marker, and
\* each stage marker showing while the location is still the entry location
\* (the code tests location or marker because either may be the only signal).
Pages ==
  {[url |-> FunnelPages[k].url, markers |-> MarkersOf(k)] : k \in Positions}
    \cup {[url |-> "/auto", markers |-> MarkersOf(k)] : k \in Positions}

StartPage == [url |-> "/auto", markers |-> {}]

\* How far along the funnel a page is.
Position(p) ==
  IF p.markers = {}
  THEN CHOOSE k \in Positions :
         FunnelPages[k].url = p.url /\ MarkersOf(k) = {}
  ELSE CHOOSE k \in Positions :
         /\ MarkersOf(k) = p.markers
         /\ \A j \in Positions : MarkersOf(j) = p.markers => k <= j

\* What the site may show after the automation acted on page p: the same page
\* (the submission was not accepted) or a page further along the funnel.
SiteAfter(p) == {q \in Pages : Position(q) >= Position(p)}

(***************************************************************************)
(* The funnel's stage handlers in the fixed stage order.                   *)
(***************************************************************************)
StageOrder ==
  << "PersonalInfo", "VehicleLookup", "VehicleUsage", "VehicleList",
     "DriverInfo", "DriverList", "PolicyInfo", "CoverageOptions",
     "PropertyInfo", "QuoteResults", "ContactMethod", "AlsoInterested",
     "ThankYou" >>

Stages == {StageOrder[i] : i \in 1..Len(StageOrder)}

Rank(h) == IF h \in Stages
           THEN CHOOSE i \in 1..Len(StageOrder) : StageOrder[i] = h
           ELSE 0

\* The handlers handleConditionalSteps dispatches.
ConditionalStages == Stages \ {"PersonalInfo"}

(***************************************************************************)
(* The stage-detection predicates, as written at each dispatch point of    *)
(* handleConditionalSteps: url is the location the test reads, ms the      *)
(* markers page.$ finds.                                                   *)
(***************************************************************************)
Detects(h, url, ms) ==
  CASE h = "VehicleLookup"   -> Includes(url, "/Prefill")
    [] h = "VehicleUsage"    -> Includes(url, "/VehicleUsage") \/ "#pg2" \in ms
    [] h = "VehicleList"     -> Includes(url, "/VehicleList") \/ "#pg3" \in ms
    [] h = "DriverInfo"      -> Includes(url, "/Driver") \/ "#pg4" \in ms
    [] h = "DriverList"      -> Includes(url, "/DriverList") \/ "#pg5" \in ms
    [] h = "PolicyInfo"      -> Includes(url, "/PolicyInfo") \/ "#pg6" \in ms
    [] h = "CoverageOptions" -> Includes(url, "/CoverageOptions") \/ "#pg7" \in ms
    [] h = "PropertyInfo"    -> Includes(url, "/PropertyInfo") \/ "#pg8" \in ms
    [] h = "QuoteResults"    -> Includes(url, "QuoteResults") \/ "#pgResults" \in ms
    [] h = "ContactMethod"   -> Includes(url, "/ContactMethod")
                                  \/ "#pgContactMethod" \in ms
    [] h = "AlsoInterested"  -> Includes(url, "/AlsoInterested")
                                  \/ "#pgAddlLob" \in ms
    [] h = "ThankYou"        -> Includes(url, "/ThankYou")
                                  \/ Includes(url, "/Complete")
                                  \/ "#pgThankYou" \in ms
    [] OTHER                 -> FALSE

(***************************************************************************)
(* The step names a failing handler reports (the catch blocks).            *)
(***************************************************************************)
FailSteps(h) ==
  CASE h = "PersonalInfo"    -> {"step1_error", "step1_validation_failed",
                                 "step1_uncertain"}
    [] h = "VehicleLookup"   -> {"vehicle_lookup_error", "vin_entry_error",
                                 "vehicle_details_error"}
    [] h = "VehicleUsage"    -> {"vehicle_usage_error"}
    [] h = "VehicleList"     -> {"vehicle_list_error"}
    [] h = "DriverInfo"      -> {"driver_info_error"}
    [] h = "DriverList"      -> {"driver_list_error"}
    [] h = "PolicyInfo"      -> {"policy_info_error", "policy_info_button_missing",
                                 "policy_info_button_disabled"}
    [] h = "CoverageOptions" -> {"coverage_options_error",
                                 "coverage_step_wrong_page",
                                 "coverage_options_not_found"}
    [] h = "PropertyInfo"    -> {"property_info_error"}
    [] h = "QuoteResults"    -> {"quote_results_error"}
    [] h = "ContactMethod"   -> {"contact_method_error", "contact_method_failed"}
    [] h = "AlsoInterested"  -> {"also_interested_error"}
    [] h = "ThankYou"        -> {"thank_you_error"}
    [] OTHER                 -> {"error"}

(***************************************************************************)
(* Quote data and run results.                                             *)
(***************************************************************************)
NoQuotes == [found |-> FALSE, quotesFound |-> 0]

QuoteData(n) == [found |-> TRUE, quotesFound |-> n]

NoCall == [handler |-> "none", success |-> TRUE, step |-> "none"]

NoResult == [returned |-> FALSE, success |-> FALSE, step |-> "none",
             quotes |-> NoQuotes]

\* A handler's failure object: { success: false, error, currentUrl, step }.
HandlerFailure(step) ==
  [returned |-> TRUE, success |-> FALSE, step |-> step, quotes |-> NoQuotes]

(***************************************************************************)
(* State of one run of fillMultiVehicleDriverForm.                         *)
(*   pc           position in the run                                      *)
(*   stage        the stage being tested for or handled                    *)
(*   page         what the browser shows                                   *)
(*   currentUrl   handleConditionalSteps' local copy of page.url()         *)
(*   vehicles, drivers   lengths of the two argument lists                 *)
(*   i            index of the vehicle and driver loops                    *)
(*   lastCall     the stage handler that returned last, and its outcome    *)
(*   storedQuotes handleConditionalSteps' local storedQuotes               *)
(*   result       what the run returned                                    *)
(***************************************************************************)
VARIABLES pc, stage, page, currentUrl, vehicles, drivers, i, lastCall,
          storedQuotes, result

runVars == << pc, stage, page, currentUrl, vehicles, drivers, i, lastCall,
              storedQuotes, result >>

InitRun ==
  /\ pc = "fillFirstStep"
  /\ stage = "PersonalInfo"
  /\ page = StartPage
  /\ currentUrl = StartPage.url
  /\ vehicles \in 0..MaxVehicles
  /\ drivers \in 1..MaxDrivers
  /\ i = 0
  /\ lastCall = NoCall
  /\ storedQuotes = NoQuotes
  /\ result = NoResult

\* return res; from fillMultiVehicleDriverForm
Return(res) ==
  /\ result' = res
  /\ pc' = "done"
  /\ stage' = "none"

\* The stage tested after stage h in handleConditionalSteps; after ThankYou the
\* final result is built.
NextStage(h) ==
  IF Rank(h) < Len(StageOrder) THEN StageOrder[Rank(h) + 1] ELSE "none"

Advance(h) ==
  IF NextStage(h) = "none"
  THEN pc' = "final" /\ stage' = "none"
  ELSE pc' = "detect" /\ stage' = NextStage(h)

(***************************************************************************)
(* fillFirstStep: navigates, fills and submits the Personal Info page.  It *)
(* reports success only when the site left the entry form.                 *)
(***************************************************************************)
FillFirstStep ==
  /\ pc = "fillFirstStep"
  /\ \E ok \in BOOLEAN, p \in SiteAfter(page), s \in FailSteps("PersonalInfo") :
       /\ ok => p # StartPage
       /\ page' = p
       /\ lastCall' = [handler |-> "PersonalInfo", success |-> ok,
                       step |-> IF ok THEN "step1_completed" ELSE s]
       /\ IF ok
          THEN pc' = "vehicleLoop" /\ stage' = "none" /\ UNCHANGED result
          ELSE Return(HandlerFailure(s))
  /\ i' = 0
  /\ UNCHANGED << currentUrl, vehicles, drivers, storedQuotes >>

(***************************************************************************)
(* The vehicle loop of fillMultiVehicleDriverForm, one iteration per step. *)
(* Vehicle 0 goes through handleMultiVehicleStep, which tests the live     *)
(* page for the VehicleLookup and VehicleUsage stages.                     *)
(***************************************************************************)
VehicleLoopExit ==
  /\ pc = "vehicleLoop"
  /\ i >= vehicles
  /\ pc' = "driverLoop"
  /\ i' = 0
  /\ UNCHANGED << stage, page, currentUrl, vehicles, drivers, lastCall,
                  storedQuotes, result >>

HandleMultiVehicleStepFirst ==
  /\ pc = "vehicleLoop"
  /\ i < vehicles
  /\ i = 0
  /\ IF Includes(page.url, "/Prefill")
     THEN pc' = "handleMulti" /\ stage' = "VehicleLookup" /\ i' = i
     ELSE IF Includes(page.url, "/VehicleUsage") \/ "#pg2" \in page.markers
          THEN pc' = "handleMulti" /\ stage' = "VehicleUsage" /\ i' = i
          ELSE pc' = "vehicleLoop" /\ stage' = stage /\ i' = i + 1
  /\ UNCHANGED << page, currentUrl, vehicles, drivers, lastCall, storedQuotes,
                  result >>

\* The stage handler handleMultiVehicleStep dispatched returns.
HandleMultiReturn ==
  /\ pc = "handleMulti"
  /\ \E ok \in BOOLEAN, p \in SiteAfter(page), s \in FailSteps(stage) :
       /\ page' = p
       /\ lastCall' = [handler |-> stage, success |-> ok,
                       step |-> IF ok THEN "completed" ELSE s]
       /\ IF ok
          THEN pc' = "vehicleLoop" /\ stage' = "none" /\ i' = i + 1
                 /\ UNCHANGED result
          ELSE Return(HandlerFailure(s)) /\ i' = i
  /\ UNCHANGED << currentUrl, vehicles, drivers, storedQuotes >>

\* addAdditionalVehicle for the vehicles after the first.
AddAdditionalVehicle ==
  /\ pc = "vehicleLoop"
  /\ i < vehicles
  /\ i > 0
  /\ \E ok \in BOOLEAN, p \in SiteAfter(page) :
       /\ page' = p
       /\ IF ok
          THEN pc' = "vehicleLoop" /\ i' = i + 1 /\ UNCHANGED << stage, result >>
          ELSE Return(HandlerFailure("add_vehicle_error")) /\ i' = i
  /\ UNCHANGED << currentUrl, vehicles, drivers, lastCall, storedQuotes >>

(***************************************************************************)
(* The driver loop: driver 0 was entered on the Personal Info page and is  *)
(* skipped; the others go through addAdditionalDriver.  When the loop ends *)
(* handleConditionalSteps starts and reads page.url().                     *)
(***************************************************************************)
DriverLoopSkipPrimary ==
  /\ pc = "driverLoop"
  /\ i < drivers
  /\ i = 0
  /\ i' = i + 1
  /\ UNCHANGED << pc, stage, page, currentUrl, vehicles, drivers, lastCall,
                  storedQuotes, result >>

AddAdditionalDriver ==
  /\ pc = "driverLoop"
  /\ i < drivers
  /\ i > 0
  /\ \E ok \in BOOLEAN, p \in SiteAfter(page) :
       /\ page' = p
       /\ IF ok
          THEN pc' = "driverLoop" /\ i' = i + 1 /\ UNCHANGED << stage, result >>
          ELSE Return(HandlerFailure("add_driver_error")) /\ i' = i
  /\ UNCHANGED << currentUrl, vehicles, drivers, lastCall, storedQuotes >>

StartConditionalSteps ==
  /\ pc = "driverLoop"
  /\ i >= drivers
  /\ currentUrl' = page.url
  /\ storedQuotes' = NoQuotes
  /\ pc' = "detect"
  /\ stage' = "VehicleLookup"
  /\ i' = 0
  /\ UNCHANGED << page, vehicles, drivers, lastCall, result >>

\* A dispatcher for which a stage that is not detected ends the run with a
\* failure.
DetectStage_UndetectedIsFailure ==
  /\ pc = "detect"
  /\ stage # "QuoteResults"
  /\ IF Detects(stage, currentUrl, page.markers)
     THEN pc' = "handleCond" /\ stage' = stage /\ UNCHANGED result
     ELSE Return(HandlerFailure("stage_not_detected"))
  /\ UNCHANGED << page, currentUrl, vehicles, drivers, i, lastCall,
                  storedQuotes >>

(***************************************************************************)
(* handleConditionalSteps.  Each stage but QuoteResults is tested for with *)
(* its detection predicate (the local currentUrl, the live DOM) and its    *)
(* handler is dispatched when the predicate holds.                         *)
(***************************************************************************)
DetectStage ==
  /\ pc = "detect"
  /\ stage # "QuoteResults"
  /\ IF Detects(stage, currentUrl, page.markers)
     THEN pc' = "handleCond" /\ stage' = stage
     ELSE Advance(stage)
  /\ UNCHANGED << page, currentUrl, vehicles, drivers, i, lastCall,
                  storedQuotes, result >>

\* A dispatched handler returns: a failure is returned to the caller, a success
\* refreshes currentUrl and moves on to the next test.  (After PolicyInfo the
\* code also polls for the coverage page, refreshing currentUrl: the page p is
\* the page at the end of that wait.)
HandlerReturn ==
  /\ pc = "handleCond"
  /\ stage # "QuoteResults"
  /\ \E ok \in BOOLEAN, p \in SiteAfter(page), s \in FailSteps(stage) :
       /\ page' = p
       /\ lastCall' = [handler |-> stage, success |-> ok,
                       step |-> IF ok THEN "completed" ELSE s]
       /\ IF ok
          THEN currentUrl' = p.url /\ Advance(stage) /\ UNCHANGED result
          ELSE Return(HandlerFailure(s)) /\ UNCHANGED currentUrl
  /\ UNCHANGED << vehicles, drivers, i, storedQuotes >>

\* A wait for the results page whose timeout ends the run with a failure.
WaitForQuoteResults_TimeoutFatal ==
  /\ pc = "detect"
  /\ stage = "QuoteResults"
  /\ \E p \in SiteAfter(page) :
       /\ page' = p
       /\ IF Includes(p.url, "QuoteResults") \/ "#pgResults" \in p.markers
          THEN /\ currentUrl' = p.url
               /\ pc' = "handleCond"
               /\ stage' = stage
               /\ UNCHANGED << storedQuotes, result >>
          ELSE /\ Return(HandlerFailure("quote_results_error"))
               /\ UNCHANGED << currentUrl, storedQuotes >>
  /\ UNCHANGED << vehicles, drivers, i, lastCall >>

\* Step 10: waitForFunction for the results page; on a timeout the fallback
\* extractor runs on whatever page is showing.
WaitForQuoteResults ==
  /\ pc = "detect"
  /\ stage = "QuoteResults"
  /\ \E p \in SiteAfter(page) :
       /\ page' = p
       /\ IF Includes(p.url, "QuoteResults") \/ "#pgResults" \in p.markers
          THEN /\ currentUrl' = p.url
               /\ pc' = "handleCond"
               /\ stage' = stage
               /\ UNCHANGED storedQuotes
          ELSE /\ \E n \in 0..MaxQuotes :
                    storedQuotes' = IF n > 0 THEN QuoteData(n) ELSE storedQuotes
               /\ Advance(stage)
               /\ UNCHANGED currentUrl
  /\ UNCHANGED << vehicles, drivers, i, lastCall, result >>

\* handleQuoteResultsStep returns: its data is stored when it succeeded.
QuoteResultsReturn ==
  /\ pc = "handleCond"
  /\ stage = "QuoteResults"
  /\ \E ok \in BOOLEAN, p \in SiteAfter(page), n \in 1..MaxQuotes :
       /\ page' = p
       /\ lastCall' = [handler |-> stage, success |-> ok,
                       step |-> IF ok THEN "completed"
                                ELSE "quote_results_error"]
       /\ storedQuotes' = IF ok THEN QuoteData(n) ELSE storedQuotes
       /\ currentUrl' = p.url
  /\ Advance(stage)
  /\ UNCHANGED << vehicles, drivers, i, result >>

\* The final result, with the stored quotes when there are any.
ReturnFinal ==
  /\ pc = "final"
  /\ Return([returned |-> TRUE, success |-> TRUE,
             step |-> "all_steps_completed", quotes |-> storedQuotes])
  /\ UNCHANGED << page, currentUrl, vehicles, drivers, i, lastCall,
                  storedQuotes >>

(***************************************************************************)
(* AutomationController: the three endpoints that own a browser session.   *)
(*                                                                         *)
(* A person object (req.body.userData, a driver) is modelled by the fields *)
(* the validators read that vary in the model: firstName, email and        *)
(* gender.  The other required applicant fields (lastName, address, city,  *)
(* state, zipCode, phone) are present and well formed in every modelled    *)
(* request.  Undefined stands for a property that is not set.              *)
(***************************************************************************)
Undefined == "<undefined>"

FirstNames == {Undefined, "Al", "test"}

Emails == {Undefined, " ", "al@mail.io", "test@test.com"}

Genders == {Undefined, "Q"}

Persons == [firstName : FirstNames, email : Emails, gender : Genders]

\* !value?.trim() : the property is unset, empty or only white space.
IsBlank(v) == v \in {Undefined, "", " "}

\* emailRegex /^[^\s@]+@[^\s@]+\.[^\s@]+$/ : no white space, one "@" after the
\* first character, and a "." after it with a character on either side.
EmailFormatOk(e) ==
  /\ ~Includes(e, " ")
  /\ \E a \in 2..Len(e) :
       /\ SubSeq(e, a, a) = "@"
       /\ \A b \in 1..Len(e) : SubSeq(e, b, b) = "@" => b = a
       /\ \E d \in (a + 2)..(Len(e) - 1) : SubSeq(e, d, d) = "."

\* DataValidator.validateFormData: the messages it pushes.
validateFormData(data) ==
  (IF IsBlank(data.firstName) THEN {"First Name is required"} ELSE {})
    \cup (IF IsBlank(data.email) THEN {"Email is required"} ELSE {})
    \cup (IF data.email \notin {Undefined, ""} /\ ~EmailFormatOk(data.email)
          THEN {"Invalid email format"} ELSE {})

\* DataValidator.validateDriverData.
validateDriverData(data) ==
  (IF data.firstName # Undefined /\ Len(data.firstName) < 2
   THEN {"Driver first name must be at least 2 characters"} ELSE {})
    \cup (IF data.gender # Undefined /\ data.gender \notin {"M", "F", "X"}
          THEN {"Driver gender must be M, F, or X"} ELSE {})

\* DataValidator.detectFraud.
detectFraud(data) ==
  (IF data.email # Undefined
      /\ toLowerCase(data.email) \in
           {"test@test.com", "fake@fake.com", "example@example.com",
                      "admin@admin.com", "noreply@noreply.com"}
   THEN {"Test email detected"} ELSE {})
    \cup (IF data.firstName # Undefined
             /\ toLowerCase(data.firstName) \in {"test", "fake", "admin", "user", "demo"}
          THEN {"Suspicious name detected"} ELSE {})

(***************************************************************************)
(* Requests.  userData and driverData may each be missing from the body.   *)
(* drivers is the array of the body (no driver or one); driversGiven says  *)
(* whether the body has a drivers array at all.  vehiclesOk says whether   *)
(* every vehicle of the request passes validateVehicleData.                *)
(***************************************************************************)
Absent == [absent |-> TRUE]

DriverLists == {<< >>} \cup {<< d >> : d \in Persons}

CompleteFormRequests ==
  { r \in [endpoint : {"submitCompleteForm"},
           userData : {Absent} \cup Persons,
           driversGiven : BOOLEAN,
           drivers : DriverLists,
           driverData : {Absent} \cup Persons,
           vehiclesOk : BOOLEAN] :
      /\ ~r.driversGiven => r.drivers = << >>
      /\ r.driversGiven => r.driverData = Absent }

\* submitInsuranceForm and debugFormFill take the applicant as the body.
BodyRequests ==
  [endpoint : {"submitInsuranceForm", "debugFormFill"},
   userData : Persons,
   driversGiven : {FALSE},
   drivers : {<< >>},
   driverData : {Absent},
   vehiclesOk : {TRUE}]

Requests == CompleteFormRequests \cup BodyRequests

\* submitCompleteForm lines 121-138: the drivers the run gets, and the person
\* fraud detection looks at.
processedDrivers(r) ==
  LET given == IF r.driversGiven THEN r.drivers
               ELSE IF r.driverData # Absent THEN << r.driverData >>
               ELSE << >>
  IN  IF Len(given) = 0 /\ r.userData # Absent THEN << r.userData >> ELSE given

primaryUserData(r) ==
  IF Len(processedDrivers(r)) > 0 THEN processedDrivers(r)[1] ELSE r.userData

\* The applicant data of a request: what the Personal Info page is filled
\* from (fillMultiVehicleDriverForm: userData || drivers[0]).
applicantOf(r) ==
  IF r.userData # Absent THEN r.userData ELSE primaryUserData(r)

NoResponse == [status |-> 0, success |-> FALSE, step |-> "none", errors |-> {}]

Response(status, success, step, errors) ==
  [status |-> status, success |-> success, step |-> step, errors |-> errors]

\* The guard of submitCompleteForm's form-data validation (line 141).
ValidatesFormData(r) == r.userData # Absent

\* What the validation part of an endpoint answers, or NoResponse when the
\* request passes and the browser is to be started.
Rejection(r) ==
  IF r.endpoint = "debugFormFill" THEN NoResponse
  ELSE IF r.endpoint = "submitInsuranceForm"
  THEN IF validateFormData(r.userData) # {}
       THEN Response(400, FALSE, "validation_failed",
                     validateFormData(r.userData))
       ELSE IF detectFraud(r.userData) # {}
       THEN Response(400, FALSE, "fraud_detection_failed",
                     detectFraud(r.userData))
       ELSE NoResponse
  ELSE IF ValidatesFormData(r) /\ validateFormData(r.userData) # {}
  THEN Response(400, FALSE, "user_validation_failed",
                validateFormData(r.userData))
  ELSE IF ~r.vehiclesOk
  THEN Response(400, FALSE, "vehicle_validation_failed",
                {"Valid vehicle year is required"})
  ELSE IF \E k \in 1..Len(processedDrivers(r)) :
            validateDriverData(processedDrivers(r)[k]) # {}
  THEN Response(400, FALSE, "driver_validation_failed",
                validateDriverData(processedDrivers(r)[1]))
  ELSE IF primaryUserData(r) # Absent /\ detectFraud(primaryUserData(r)) # {}
  THEN Response(400, FALSE, "fraud_detection_failed",
                detectFraud(primaryUserData(r)))
  ELSE NoResponse

(***************************************************************************)
(* JavaScript scoping of the catch blocks: the names a catch block reads   *)
(* and the names in scope there (function scope; let declarations of the   *)
(* try block are not).  Reading a name that is not in scope throws a       *)
(* ReferenceError out of the catch block.                                  *)
(***************************************************************************)
FunctionScope(e) ==
  IF e = "submitCompleteForm"
  THEN {"req", "res", "startTime", "userData", "vehicleData", "driverData",
        "vehicles", "drivers", "policyInfo", "automator"}
  ELSE {"req", "res", "startTime", "userData", "automator"}

CatchReads(e) ==
  IF e = "submitCompleteForm"
  THEN {"startTime", "primaryUserData", "userData", "processedVehicles",
        "processedDrivers", "res"}
  ELSE IF e = "submitInsuranceForm"
  THEN {"startTime", "userData", "res"}
  ELSE {"res"}

CatchThrows(e) == ~(CatchReads(e) \subseteq FunctionScope(e))

\* What fillMultiVehicleDriverForm / fillFirstStep may return to the endpoint.
RunOutcomes ==
  { [success |-> TRUE, step |-> "all_steps_completed", quotes |-> TRUE],
    [success |-> TRUE, step |-> "all_steps_completed", quotes |-> FALSE],
    [success |-> FALSE, step |-> "step1_error", quotes |-> FALSE],
    [success |-> FALSE, step |-> "contact_method_error", quotes |-> FALSE] }

(***************************************************************************)
(* State of one request.                                                   *)
(*   req        the request                                                *)
(*   cpc        position in the endpoint                                   *)
(*   browser    automator.browser: "null", "open" or "closed"              *)
(*   launched   puppeteer.launch returned a browser                        *)
(*   navigated  page.goto was called                                       *)
(*   responses  the responses sent on res, in order                        *)
(*   rejected   the endpoint's promise rejected (an uncaught exception)    *)
(***************************************************************************)
VARIABLES req, cpc, browser, launched, navigated, responses, rejected

ctlVars == << req, cpc, browser, launched, navigated, responses, rejected >>

InitCtl ==
  /\ req \in Requests
  /\ cpc = "validate"
  /\ browser = "null"
  /\ launched = FALSE
  /\ navigated = FALSE
  /\ responses = << >>
  /\ rejected = FALSE

\* The validation part of the try block: a rejected request is answered with
\* status 400 and the function returns through finally.
Validate ==
  /\ cpc = "validate"
  /\ IF Rejection(req) # NoResponse
     THEN /\ responses' = Append(responses, Rejection(req))
          /\ cpc' = "finally"
     ELSE /\ cpc' = "initialize"
          /\ UNCHANGED responses
  /\ UNCHANGED << req, browser, launched, navigated, rejected >>

\* automator.initialize(): puppeteer.launch, then newPage and the page setup.
\* A failure is rethrown; this.browser is already set when a later call fails.
InitializeOk ==
  /\ cpc = "initialize"
  /\ browser' = "open"
  /\ launched' = TRUE
  /\ cpc' = "run"
  /\ UNCHANGED << req, navigated, responses, rejected >>

InitializeThrows ==
  /\ cpc = "initialize"
  /\ \E launchOk \in BOOLEAN :
       /\ browser' = IF launchOk THEN "open" ELSE "null"
       /\ launched' = launchOk
  /\ cpc' = "catch"
  /\ UNCHANGED << req, navigated, responses, rejected >>

\* The run (fillMultiVehicleDriverForm, fillFirstStep) returns a result; the
\* endpoint saves it and answers with it.
RunReturns ==
  /\ cpc = "run"
  /\ req.endpoint # "debugFormFill"
  /\ \E r \in RunOutcomes :
       responses' = Append(responses,
                           Response(200, r.success, r.step, {}))
  /\ navigated' = TRUE
  /\ cpc' = "finally"
  /\ UNCHANGED << req, browser, launched, rejected >>

\* debugFormFill drives the page itself: it answers when all went well, and
\* any page call may throw.
DebugFill ==
  /\ cpc = "run"
  /\ req.endpoint = "debugFormFill"
  /\ \E ok \in BOOLEAN :
       IF ok
       THEN /\ responses' = Append(responses,
                                   Response(200, TRUE, "debug_completed", {}))
            /\ cpc' = "finally"
       ELSE /\ cpc' = "catch"
            /\ UNCHANGED responses
  /\ navigated' = TRUE
  /\ UNCHANGED << req, browser, launched, rejected >>

\* The catch block: logs, saves and answers with status 500, unless one of the
\* names it reads is not in scope, in which case it throws.
Catch ==
  /\ cpc = "catch"
  /\ IF CatchThrows(req.endpoint)
     THEN /\ rejected' = TRUE
          /\ UNCHANGED responses
     ELSE /\ responses' = Append(responses,
                                 Response(500, FALSE, "automation_error", {}))
          /\ UNCHANGED rejected
  /\ cpc' = "finally"
  /\ UNCHANGED << req, browser, launched, navigated >>

\* A close() that releases the browser only when the catch block completed.
close_OnlyWhenCatchCompleted ==
  browser' = IF browser = "open" /\ ~rejected THEN "closed" ELSE browser

\* InsuranceFormAutomator.close(): closes the browser when one is set.
close ==
  browser' = IF browser = "open" THEN "closed" ELSE browser

\* The finally block.
Finally ==
  /\ cpc = "finally"
  /\ close
  /\ cpc' = "done"
  /\ UNCHANGED << req, launched, navigated, responses, rejected >>

(***************************************************************************)
(* Make and model dropdowns.  An option is the pair (value, text) the page *)
(* reports for an <option>; HTMLOptionElement.text is already stripped of  *)
(* leading and trailing white space, so trim() leaves it as it is.         *)
(***************************************************************************)
MaxOptions == 3

OptionPool ==
  { [value |-> "", text |-> ""],
    [value |-> "CVC", text |-> "Civic"],
    [value |-> "CVS", text |-> "Civic Si"],
    [value |-> "ACC", text |-> "Accord"] }

\* The option lists a dropdown may hold: distinct options in any order.
OptionLists ==
  UNION { { o \in [1..n -> OptionPool] :
              \A a, b \in 1..n : a # b => o[a] # o[b] } : n \in 0..MaxOptions }

\* vehicle.make / vehicle.model as supplied; never empty (the code skips the
\* dropdown for an empty value).
Targets == {"Civic", "CIVIC SI", "Toyotaa"}

Fields == {"make", "model"}

ExactMatch(option, target) ==
  \/ toLowerCase(option.text) = target
  \/ toLowerCase(option.value) = target

PartialMatch(option, target) ==
  \/ Includes(toLowerCase(option.text), target)
  \/ Includes(target, toLowerCase(option.text))

\* Array.prototype.find / the for-of loop with break: the index of the first
\* option that satisfies the test, 0 when there is none.
FirstExact(opts, target) ==
  IF \E k \in 1..Len(opts) : ExactMatch(opts[k], target)
  THEN CHOOSE k \in 1..Len(opts) :
         /\ ExactMatch(opts[k], target)
         /\ \A j \in 1..(k - 1) : ~ExactMatch(opts[j], target)
  ELSE 0

FirstPartial(opts, target) ==
  IF \E k \in 1..Len(opts) : PartialMatch(opts[k], target)
  THEN CHOOSE k \in 1..Len(opts) :
         /\ PartialMatch(opts[k], target)
         /\ \A j \in 1..(k - 1) : ~PartialMatch(opts[j], target)
  ELSE 0

\* handleVehicleDetailsForm: exact match first, then partial match.
DetailsFormMatch(opts, target) ==
  IF FirstExact(opts, target) # 0
  THEN FirstExact(opts, target)
  ELSE FirstPartial(opts, target)

\* fillAdditionalVehicleDetails: one loop, the first partial match wins.
AdditionalVehicleMatch(opts, target) == FirstPartial(opts, target)

\* The message of the Error handleVehicleDetailsForm throws, in its parts.
NotFoundMessage(field, wanted) ==
  << "Vehicle ", field, " \"", wanted, "\" not found in dropdown options" >>

NoError == << >>

(***************************************************************************)
(* State of one dropdown selection.                                        *)
(*   options      the options of the dropdown                              *)
(*   wanted       vehicle.make or vehicle.model                            *)
(*   field        "make" or "model"                                        *)
(*   routine      the method that made the selection                       *)
(*   selectCalls  the values passed to page.select, in order               *)
(*   outcome      success, step and error message of the method            *)
(***************************************************************************)
VARIABLES options, wanted, field, routine, selectCalls, outcome

selVars == << options, wanted, field, routine, selectCalls, outcome >>

NoOutcome == [success |-> FALSE, step |-> "none", error |-> NoError]

InitSel ==
  /\ options \in OptionLists
  /\ wanted \in Targets
  /\ field \in Fields
  /\ routine = "none"
  /\ selectCalls = << >>
  /\ outcome = NoOutcome

\* handleVehicleDetailsForm, the selection of the make or of the model.  A
\* missing match throws; the method's catch returns 'vehicle_details_error'
\* with the message of the Error.
HandleVehicleDetailsForm ==
  /\ routine = "none"
  /\ routine' = "handleVehicleDetailsForm"
  /\ LET k == DetailsFormMatch(options, toLowerCase(wanted))
     IN  IF k # 0
         THEN /\ selectCalls' = Append(selectCalls, options[k].value)
              /\ outcome' = [success |-> TRUE,
                             step |-> "vehicle_details_completed",
                             error |-> NoError]
         ELSE /\ UNCHANGED selectCalls
              /\ outcome' = [success |-> FALSE,
                             step |-> "vehicle_details_error",
                             error |-> NotFoundMessage(field, wanted)]
  /\ UNCHANGED << options, wanted, field >>

\* fillAdditionalVehicleDetails, the selection of the make or of the model:
\* page.select is called when the matched value is truthy; no match is not an
\* error.
FillAdditionalVehicleDetails ==
  /\ routine = "none"
  /\ routine' = "fillAdditionalVehicleDetails"
  /\ LET k == AdditionalVehicleMatch(options, toLowerCase(wanted))
     IN  IF k # 0 /\ options[k].value # ""
         THEN selectCalls' = Append(selectCalls, options[k].value)
         ELSE UNCHANGED selectCalls
  /\ outcome' = [success |-> TRUE,
                 step |-> Undefined,
                 error |-> NoError]
  /\ UNCHANGED << options, wanted, field >>

(***************************************************************************)
(* clickButton.  The element is what the page holds for the selector:      *)
(*   appears     waitForSelector finds it within its timeout               *)
(*   exists      document.querySelector finds it when it is probed         *)
(*   visible, enabled, inViewport, type   the fields of elementInfo        *)
(***************************************************************************)
ClickMethods ==
  << "standard_click", "evaluate_click", "mouse_click", "form_submit" >>

Selectors == {"#pg2btn", "#submitButton"}

Elements ==
  { e \in [appears : BOOLEAN, exists : BOOLEAN, visible : BOOLEAN,
           enabled : BOOLEAN, inViewport : BOOLEAN,
           type : {"submit", "button"}] :
      /\ ~e.appears => ~e.exists
      /\ ~e.exists => (e.visible /\ e.enabled /\ e.inViewport
                         /\ e.type = "button") }

\* The messages a click method may fail with.  Method 4 throws its own Error
\* when the element is not a submit button.
ClickFailures(method, el) ==
  CASE method = "standard_click" ->
         {"Node is either not clickable or not an Element",
          "Node is detached from document"}
    [] method = "evaluate_click" ->
         {"Cannot read properties of null (reading 'click')"}
    [] method = "mouse_click" ->
         {"Cannot read properties of null (reading 'x')"}
    [] method = "form_submit" ->
         IF el.type = "submit"
         THEN {"Execution context was destroyed"}
         ELSE {"Not a submit button"}

\* Whether a click method can succeed on the element.
MayClick(method, el) == method = "form_submit" => el.type = "submit"

\* A probe that lets a disabled element through.
ProbeError_IgnoresDisabled(selector, el) ==
  IF ~el.appears
  THEN << "Waiting for selector ", selector, " failed: timeout" >>
  ELSE IF ~el.exists THEN << "Element ", selector, " does not exist" >>
  ELSE IF ~el.visible THEN << "Element ", selector, " is not visible" >>
  ELSE << >>

\* waitForSelector and the guards on elementInfo: the message of the Error
\* thrown, << >> when the element passes.
ProbeError(selector, el) ==
  IF ~el.appears
  THEN << "Waiting for selector ", selector, " failed: timeout" >>
  ELSE IF ~el.exists THEN << "Element ", selector, " does not exist" >>
  ELSE IF ~el.visible THEN << "Element ", selector, " is not visible" >>
  ELSE IF ~el.enabled THEN << "Element ", selector, " is disabled" >>
  ELSE << >>

\* The message of the Error thrown after the loop over clickMethods.
AllFailedMessage(selector, last) ==
  << "All click methods failed for ", selector, ". Last error: ", last >>

NoClickOutcome == [returned |-> "none", method |-> "none", message |-> << >>]

(***************************************************************************)
(* State of one call of clickButton.                                       *)
(*   selector, element   the argument and the element it names             *)
(*   clickPc       position in clickButton                                 *)
(*   clickIndex    the loop index i over clickMethods                      *)
(*   clickLog      scrollIntoView and the click methods run, in order      *)
(*   clickErrors   the message of each failed click method, in order       *)
(*   lastError     the local lastError (its message)                       *)
(*   clickOutcome  "true" or "threw", the method that clicked, the message *)
(*                 of the Error thrown                                     *)
(***************************************************************************)
VARIABLES selector, element, clickPc, clickIndex, clickLog, clickErrors,
          lastError, clickOutcome

clickVars == << selector, element, clickPc, clickIndex, clickLog, clickErrors,
                lastError, clickOutcome >>

InitClick ==
  /\ selector \in Selectors
  /\ element \in Elements
  /\ clickPc = "probe"
  /\ clickIndex = 0
  /\ clickLog = << >>
  /\ clickErrors = << >>
  /\ lastError = Undefined
  /\ clickOutcome = NoClickOutcome

\* waitForSelector, the probe and its guards.
ProbeElement ==
  /\ clickPc = "probe"
  /\ IF ProbeError(selector, element) # << >>
     THEN /\ clickOutcome' = [returned |-> "threw", method |-> "none",
                              message |-> ProbeError(selector, element)]
          /\ clickPc' = "done"
     ELSE /\ clickPc' = IF element.inViewport THEN "click" ELSE "scroll"
          /\ UNCHANGED clickOutcome
  /\ UNCHANGED << selector, element, clickIndex, clickLog, clickErrors,
                  lastError >>

\* if (!elementInfo.inViewport) scrollIntoView
ScrollIntoView ==
  /\ clickPc = "scroll"
  /\ clickLog' = Append(clickLog, "scrollIntoView")
  /\ clickPc' = "click"
  /\ UNCHANGED << selector, element, clickIndex, clickErrors, lastError,
                  clickOutcome >>

\* A click method that succeeds and does not end the loop.
ClickMethodSucceeds_KeepsLooping ==
  /\ clickPc = "click"
  /\ clickIndex < Len(ClickMethods)
  /\ MayClick(ClickMethods[clickIndex + 1], element)
  /\ clickLog' = Append(clickLog, ClickMethods[clickIndex + 1])
  /\ clickIndex' = clickIndex + 1
  /\ UNCHANGED << selector, element, clickPc, clickErrors, lastError,
                  clickOutcome >>

\* clickMethods[i]() resolves: clickButton returns true.
ClickMethodSucceeds ==
  /\ clickPc = "click"
  /\ clickIndex < Len(ClickMethods)
  /\ MayClick(ClickMethods[clickIndex + 1], element)
  /\ clickLog' = Append(clickLog, ClickMethods[clickIndex + 1])
  /\ clickOutcome' = [returned |-> "true",
                      method |-> ClickMethods[clickIndex + 1],
                      message |-> << >>]
  /\ clickPc' = "done"
  /\ UNCHANGED << selector, element, clickIndex, clickErrors, lastError >>

\* clickMethods[i]() rejects: lastError = error, and the loop goes on.
ClickMethodFails ==
  /\ clickPc = "click"
  /\ clickIndex < Len(ClickMethods)
  /\ \E reason \in ClickFailures(ClickMethods[clickIndex + 1], element) :
       /\ lastError' = reason
       /\ clickErrors' = Append(clickErrors, reason)
  /\ clickLog' = Append(clickLog, ClickMethods[clickIndex + 1])
  /\ clickIndex' = clickIndex + 1
  /\ UNCHANGED << selector, element, clickPc, clickOutcome >>

\* The loop ended without a return: throw, and the outer catch rethrows.
AllClickMethodsFailed ==
  /\ clickPc = "click"
  /\ clickIndex = Len(ClickMethods)
  /\ clickOutcome' = [returned |-> "threw", method |-> "none",
                      message |-> AllFailedMessage(selector, lastError)]
  /\ clickPc' = "done"
  /\ UNCHANGED << selector, element, clickIndex, clickLog, clickErrors,
                  lastError >>

(***************************************************************************)
(* clearAndType.  The field is the input element the selector names:       *)
(*   exists   page.$ finds it                                              *)
(*   value    what it holds                                                *)
(*   script   what the page does with a typed key: nothing, upper-casing   *)
(*            (as a VIN field does), or a maxlength that drops the keys    *)
(*            beyond MaxFieldLen                                           *)
(***************************************************************************)
MaxFieldLen == 3

MaxCalls == 2

Null == "<null>"

TypeTexts == {Null, "", "ab", "abcd"}

FieldContents == {"", "xy"}

InputScripts == {"none", "uppercase", "maxlength"}

InputFields ==
  [exists : BOOLEAN, value : FieldContents, script : InputScripts]

\* const textValue = text != null ? String(text) : ''
textValue(text) == IF text = Null THEN "" ELSE text

UpperChar(c) ==
  CASE c = "a" -> "A"
    [] c = "b" -> "B"
    [] c = "c" -> "C"
    [] c = "d" -> "D"
    [] OTHER -> c

\* What the field holds after one key was typed into it.
KeyTyped(value, c, script) ==
  CASE script = "uppercase" -> value \o UpperChar(c)
    [] script = "maxlength" ->
         IF Len(value) >= MaxFieldLen THEN value ELSE value \o c
    [] OTHER -> value \o c

\* page.type: the keys of the text, one after the other.
RECURSIVE TypeText(_, _, _)
TypeText(value, keys, script) ==
  IF Len(keys) = 0
  THEN value
  ELSE TypeText(KeyTyped(value, SubSeq(keys, 1, 1), script),
                SubSeq(keys, 2, Len(keys)), script)

(***************************************************************************)
(* State of a field and the calls of clearAndType on it.                   *)
(*   input      the field                                                  *)
(*   original   what the field held before the first call                  *)
(*   text       the text argument of the calls                             *)
(*   returns    what each call returned, in order                          *)
(*   held       what the field held after each call, in order              *)
(***************************************************************************)
VARIABLES input, original, text, returns, held

typeVars == << input, original, text, returns, held >>

InitType ==
  /\ input \in InputFields
  /\ original = input.value
  /\ text \in TypeTexts
  /\ returns = << >>
  /\ held = << >>

\* page.$(selector) finds nothing: return false.
ClearAndTypeMissing ==
  /\ Len(returns) < MaxCalls
  /\ ~input.exists
  /\ returns' = Append(returns, FALSE)
  /\ held' = Append(held, input.value)
  /\ UNCHANGED << input, original, text >>

\* The field is cleared and page.type throws after some of the keys: the
\* catch returns false.
ClearAndTypeThrows ==
  /\ Len(returns) < MaxCalls
  /\ input.exists
  /\ textValue(text) # ""
  /\ \E k \in 0..(Len(textValue(text)) - 1) :
       /\ input' = [input EXCEPT !.value =
                      TypeText("", SubSeq(textValue(text), 1, k), input.script)]
       /\ held' = Append(held, input'.value)
  /\ returns' = Append(returns, FALSE)
  /\ UNCHANGED << original, text >>

\* A clearAndType that types without clearing the field first.
ClearAndTypeCompletes_NoClear ==
  /\ Len(returns) < MaxCalls
  /\ input.exists
  /\ input' = [input EXCEPT !.value =
                 TypeText(input.value, textValue(text), input.script)]
  /\ held' = Append(held, input'.value)
  /\ returns' = Append(returns, TRUE)
  /\ UNCHANGED << original, text >>

\* The field is cleared and the text typed: return true.
ClearAndTypeCompletes ==
  /\ Len(returns) < MaxCalls
  /\ input.exists
  /\ input' = [input EXCEPT !.value =
                 TypeText("", textValue(text), input.script)]
  /\ held' = Append(held, input'.value)
  /\ returns' = Append(returns, TRUE)
  /\ UNCHANGED << original, text >>

IdleType ==
  /\ input = Absent
  /\ original = ""
  /\ text = ""
  /\ returns = << >>
  /\ held = << >>

(***************************************************************************)
(* Quote extraction.  The results page is what the browser shows when the  *)
(* run looks for quotes:                                                   *)
(*   url        its location                                               *)
(*   pgResults  whether it has the #pgResults element                      *)
(*   panels     its .resultsPanel elements in document order, each with    *)
(*              the text of its .dollar element (Missing when it has none) *)
(*   tokens     the values of the currency tokens in its rendered text     *)
(*              outside the panels                                         *)
(***************************************************************************)
MaxPanels == 2

Missing == "<missing>"

DollarTexts == {Missing, "TBD", "$89", " $120 "}

TextTokens == {75, 2500}

PanelLists ==
  UNION { [1..n -> [dollar : DollarTexts]] : n \in 0..MaxPanels }

ResultPages ==
  [url : {"/auto/PropertyInfo", "/auto/QuoteResults"},
   pgResults : BOOLEAN,
   panels : PanelLists,
   tokens : SUBSET TextTokens]

\* String.prototype.trim, for the space character.
RECURSIVE trim(_)
trim(s) ==
  IF Len(s) = 0 THEN s
  ELSE IF SubSeq(s, 1, 1) = " " THEN trim(SubSeq(s, 2, Len(s)))
  ELSE IF SubSeq(s, Len(s), Len(s)) = " " THEN trim(SubSeq(s, 1, Len(s) - 1))
  ELSE s

\* priceElement?.textContent?.trim(): Missing stands for undefined.
priceText(panel) ==
  IF panel.dollar = Missing THEN Missing ELSE trim(panel.dollar)

\* A panel whose .dollar element shows a price.
hasPrice(panel) ==
  /\ priceText(panel) \notin {Missing, ""}
  /\ Includes(priceText(panel), "$")

\* The wait of handleConditionalSteps for the results page.
ResultsDetected(pg) == Includes(pg.url, "QuoteResults") \/ pg.pgResults

\* The wait of handleQuoteResultsStep for a priced panel.
PricedPanelShown(pg) ==
  \E k \in 1..Len(pg.panels) : hasPrice(pg.panels[k])

NullPayload == [isNull |-> TRUE, quotesFound |-> 0, quotes |-> << >>]

Payload(quotes) ==
  [isNull |-> FALSE, quotesFound |-> Len(quotes), quotes |-> quotes]

\* A mapping of the panels that leaves out the last one.
PanelRecords_DropsLast(panels) ==
  [k \in 1..(Len(panels) - 1) |->
     [index |-> k - 1,
      price |-> IF priceText(panels[k]) \in {Missing, ""}
                THEN "No Price" ELSE priceText(panels[k])]]

\* handleQuoteResultsStep: Array.from(quoteElements).map(...), one record
\* for every panel.
PanelRecords(panels) ==
  [k \in 1..Len(panels) |->
     [index |-> k - 1,
      price |-> IF priceText(panels[k]) \in {Missing, ""}
                THEN "No Price" ELSE priceText(panels[k])]]

\* extractQuotesFromCurrentPage: map(...) to a record or null, then
\* filter(quote => quote !== null).
RECURSIVE PricedRecords(_, _)
PricedRecords(panels, k) ==
  IF k > Len(panels) THEN << >>
  ELSE IF hasPrice(panels[k])
  THEN << [index |-> k - 1, price |-> priceText(panels[k])] >>
         \o PricedRecords(panels, k + 1)
  ELSE PricedRecords(panels, k + 1)

\* An extractor that, without panels, reports the currency tokens of the
\* page text, each tagged by the window 50 < v < 2000.
extractQuotes_WithTextScan(pg) ==
  IF Len(pg.panels) = 0 /\ pg.tokens # {}
  THEN LET order == CHOOSE f \in [1..Cardinality(pg.tokens) -> pg.tokens] :
                      \A a, b \in DOMAIN f : a < b => f[a] < f[b]
       IN  Payload([k \in DOMAIN order |->
                      [index |-> k - 1,
                       value |-> order[k],
                       tag |-> IF 50 < order[k] /\ order[k] < 2000
                               THEN "plausible_premium"
                               ELSE "coverage_limit"]])
  ELSE IF Len(PricedRecords(pg.panels, 1)) > 0
  THEN Payload(PricedRecords(pg.panels, 1))
  ELSE NullPayload

\* extractQuotesFromCurrentPage: the payload, or null when no panel has a
\* price (also when the page has no panel at all).
extractQuotes(pg) ==
  IF Len(PricedRecords(pg.panels, 1)) > 0
  THEN Payload(PricedRecords(pg.panels, 1))
  ELSE NullPayload

(***************************************************************************)
(* State of the quote step of a run.                                       *)
(*   results    the results page                                           *)
(*   quotePc    position in step 10 of handleConditionalSteps              *)
(*   quoteLog   the waits that ended and the extractions run, in order     *)
(*   quoteStep  the step handleQuoteResultsStep returned, "none" before    *)
(*   payload    the quote payload returned (data of the handler, or what   *)
(*              extractQuotesFromCurrentPage returned)                     *)
(***************************************************************************)
VARIABLES results, quotePc, quoteLog, quoteStep, payload

quoteVars == << results, quotePc, quoteLog, quoteStep, payload >>

InitQuote ==
  /\ results \in ResultPages
  /\ quotePc = "waitResults"
  /\ quoteLog = << >>
  /\ quoteStep = "none"
  /\ payload = NullPayload

\* handleConditionalSteps: waitForFunction(QuoteResults or #pgResults, 30 s).
WaitForResultsPage ==
  /\ quotePc = "waitResults"
  /\ IF ResultsDetected(results)
     THEN /\ quoteLog' = Append(quoteLog, "results_page_shown")
          /\ quotePc' = "waitPgResults"
     ELSE /\ quoteLog' = Append(quoteLog, "results_page_timeout")
          /\ quotePc' = "fallback"
  /\ UNCHANGED << results, quoteStep, payload >>

\* handleQuoteResultsStep: waitForSelector('#pgResults', 15 s).
WaitForPgResults ==
  /\ quotePc = "waitPgResults"
  /\ IF results.pgResults
     THEN /\ quoteLog' = Append(quoteLog, "pgResults_shown")
          /\ quotePc' = "waitPriced"
          /\ UNCHANGED quoteStep
     ELSE /\ quoteLog' = Append(quoteLog, "pgResults_timeout")
          /\ quoteStep' = "quote_results_error"
          /\ quotePc' = "done"
  /\ UNCHANGED << results, payload >>

\* handleQuoteResultsStep: waitForFunction(a panel has a price, 120 s).
WaitForPricedPanel ==
  /\ quotePc = "waitPriced"
  /\ IF PricedPanelShown(results)
     THEN /\ quoteLog' = Append(quoteLog, "priced_panel_shown")
          /\ quotePc' = "extract"
          /\ UNCHANGED quoteStep
     ELSE /\ quoteLog' = Append(quoteLog, "priced_panel_timeout")
          /\ quoteStep' = "quote_results_error"
          /\ quotePc' = "done"
  /\ UNCHANGED << results, payload >>

\* handleQuoteResultsStep: the extraction and the result data.
ExtractInHandler ==
  /\ quotePc = "extract"
  /\ quoteLog' = Append(quoteLog, "extract_handleQuoteResultsStep")
  /\ payload' = Payload(PanelRecords(results.panels))
  /\ quoteStep' = "quote_results_completed"
  /\ quotePc' = "done"
  /\ UNCHANGED results

\* handleConditionalSteps' catch: extractQuotesFromCurrentPage.
ExtractFallback ==
  /\ quotePc = "fallback"
  /\ quoteLog' = Append(quoteLog, "extract_extractQuotesFromCurrentPage")
  /\ payload' = extractQuotes(results)
  /\ quotePc' = "done"
  /\ UNCHANGED << results, quoteStep >>

IdleQuote ==
  /\ results = Absent
  /\ quotePc = "idle"
  /\ quoteLog = << >>
  /\ quoteStep = "none"
  /\ payload = NullPayload

(***************************************************************************)
(* The primary driver's identity fields.  fillMultiVehicleDriverForm fills *)
(* the Personal Info page from userData || drivers[0], skips driver 0 in   *)
(* its driver loop, and hands { ...drivers[0], policyInfo, allDrivers,     *)
(* allVehicles } to handleConditionalSteps as driverData, which passes it  *)
(* to handleDriverInformationStep when the Driver Info stage is detected.  *)
(* A write is a clearAndType call that found its element.                  *)
(***************************************************************************)
GivenNames == {Undefined, "Al", "Bo"}

Surnames == {Undefined, "Ray"}

NamedPersons == [firstName : GivenNames, lastName : Surnames]

\* JavaScript truthiness of a string property.
Truthy(v) == v # Undefined /\ v # ""

\* The selector lists of fieldMappings for the two name fields.
FirstNameSelectors ==
  << "input[value=\"Michael\"]", "#firstName", "#FirstName",
     "input[placeholder=\"First Name\"]" >>

LastNameSelectors ==
  << "input[value=\"Johnson\"]", "#lastName", "#LastName",
     "input[placeholder=\"Last Name\"]" >>

\* The writes of one fieldMappings entry: nothing when the data is falsy,
\* otherwise the first selector whose clearAndType returned true (k), or
\* nothing when none did (k = 0).
MappingWrites(data, selectors, k) ==
  IF Truthy(data) /\ k > 0
  THEN {[page |-> "PersonalInfo", selector |-> selectors[k], text |-> data]}
  ELSE {}

\* The write of one guarded clearAndType call of handleDriverInformationStep.
DriverInfoWrites(data, sel, found) ==
  IF Truthy(data) /\ found
  THEN {[page |-> "DriverInfo", selector |-> sel, text |-> data]}
  ELSE {}

VARIABLES userData, primaryDriver, namePc, nameWrites

nameVars == << userData, primaryDriver, namePc, nameWrites >>

InitNames ==
  /\ userData \in NamedPersons \cup {Absent}
  /\ primaryDriver \in NamedPersons
  /\ namePc = "fillFirstStep"
  /\ nameWrites = {}

\* Step 1: fillFirstStep(userData || drivers[0]) fills the name fields of the
\* Personal Info page; the run goes on when step 1 succeeded.
FillFormFieldsNames ==
  /\ namePc = "fillFirstStep"
  /\ LET formData == IF userData # Absent THEN userData ELSE primaryDriver
     IN \E kf \in 0..Len(FirstNameSelectors), kl \in 0..Len(LastNameSelectors) :
          nameWrites' =
            nameWrites
              \cup MappingWrites(formData.firstName, FirstNameSelectors, kf)
              \cup MappingWrites(formData.lastName, LastNameSelectors, kl)
  /\ \E ok \in BOOLEAN : namePc' = IF ok THEN "conditionalSteps" ELSE "done"
  /\ UNCHANGED << userData, primaryDriver >>

\* The Driver Info stage is not detected: its handler is not dispatched.
DriverInfoNotDetected ==
  /\ namePc = "conditionalSteps"
  /\ namePc' = "done"
  /\ UNCHANGED << userData, primaryDriver, nameWrites >>

\* handleDriverInformationStep(driverData) with driverData spread from
\* drivers[0]: once #pg4 is there, the name fields are typed when the names
\* are truthy.
HandleDriverInformationStep ==
  /\ namePc = "conditionalSteps"
  /\ \E pg4 \in BOOLEAN, ff \in BOOLEAN, fl \in BOOLEAN :
       nameWrites' =
         IF pg4
         THEN nameWrites
                \cup DriverInfoWrites(primaryDriver.firstName, "#drvFirstName", ff)
                \cup DriverInfoWrites(primaryDriver.lastName, "#drvLastName", fl)
         ELSE nameWrites
  /\ namePc' = "done"
  /\ UNCHANGED << userData, primaryDriver >>

IdleNames ==
  /\ userData = Absent
  /\ primaryDriver = Absent
  /\ namePc = "idle"
  /\ nameWrites = {}

(***************************************************************************)
(* The conditional sub-panels of handleVehicleUsageStep and                *)
(* handlePropertyInfoStep.  Each panel is probed with                      *)
(* page.$eval(panel, el => el.style.display !== 'none').catch(() => false) *)
(* and its control is set with page.select only when the probe returned    *)
(* true and the caller's value for it is truthy.                           *)
(***************************************************************************)
PanelHandlers == {"handleVehicleUsageStep", "handlePropertyInfoStep"}

\* The panels of a handler in the order the code probes them: the panel
\* probed, the control selected, the property of the caller's data read.
PanelsOf(h) ==
  IF h = "handleVehicleUsageStep"
  THEN << [panel |-> "#vehOwnershipPan", control |-> "#vehOwnership",
           key |-> "ownership"],
          [panel |-> "#GaragedPan", control |-> "#Garaged",
           key |-> "garaged"],
          [panel |-> "#vehLenOfOwnershipPan", control |-> "#vehLenOfOwnership",
           key |-> "lengthOfOwnership"] >>
  ELSE << [panel |-> "#ResidenceStatusPan", control |-> "#ResidenceStatus",
           key |-> "residenceStatus"],
          [panel |-> "#SelectedResidenceTypePan", control |-> "#ResidenceType",
           key |-> "residenceType"] >>

PanelKeys(h) == {PanelsOf(h)[k].key : k \in 1..Len(PanelsOf(h))}

PanelNames(h) == {PanelsOf(h)[k].panel : k \in 1..Len(PanelsOf(h))}

\* What the caller supplies for a control: nothing or an option value.
PanelValues == {Undefined, "1"}

\* What the probe meets: a panel with inline display none, a panel shown, no
\* such element ($eval rejects), or an evaluation that throws.
PanelStates == {"none", "shown", "missing", "throws"}

\* A probe whose rejection counts as visible.
PanelVisible_RejectionCountsVisible(st) == st # "none"

\* The probe's result: el.style.display !== 'none', and false when $eval
\* rejects.
PanelVisible(st) == st = "shown"

VARIABLES panelHandler, panelData, panelIndex, panelSeen, panelSelects,
          panelPc

panelVars == << panelHandler, panelData, panelIndex, panelSeen, panelSelects,
               panelPc >>

InitPanels ==
  /\ panelHandler \in PanelHandlers
  /\ panelData \in [PanelKeys(panelHandler) -> PanelValues]
  /\ panelIndex = 1
  /\ panelSeen = [p \in PanelNames(panelHandler) |-> "unprobed"]
  /\ panelSelects = << >>
  /\ panelPc = "panels"

\* One panel: the probe, then the guarded page.select.
ProbeAndSelect ==
  /\ panelPc = "panels"
  /\ panelIndex <= Len(PanelsOf(panelHandler))
  /\ LET e == PanelsOf(panelHandler)[panelIndex]
     IN \E st \in PanelStates :
          /\ panelSeen' = [panelSeen EXCEPT ![e.panel] = st]
          /\ IF PanelVisible(st) /\ Truthy(panelData[e.key])
             THEN /\ panelSelects' =
                       Append(panelSelects,
                              [control |-> e.control,
                               value |-> panelData[e.key]])
                  /\ panelIndex' = panelIndex + 1
                  /\ panelPc' = panelPc
             ELSE /\ panelSelects' = panelSelects
                  /\ panelIndex' = panelIndex + 1
                  /\ panelPc' = panelPc
  /\ UNCHANGED << panelHandler, panelData >>

\* page.select rejects (no such control, no such option): the handler's catch
\* returns a failure.
SelectThrows ==
  /\ panelPc = "panels"
  /\ panelIndex <= Len(PanelsOf(panelHandler))
  /\ LET e == PanelsOf(panelHandler)[panelIndex]
     IN /\ Truthy(panelData[e.key])
        /\ panelSeen' = [panelSeen EXCEPT ![e.panel] = "shown"]
  /\ panelPc' = "failed"
  /\ UNCHANGED << panelHandler, panelData, panelIndex, panelSelects >>

\* After the last panel the handler clicks its continue button and returns.
PanelsDone ==
  /\ panelPc = "panels"
  /\ panelIndex > Len(PanelsOf(panelHandler))
  /\ \E ok \in BOOLEAN : panelPc' = IF ok THEN "returned" ELSE "failed"
  /\ UNCHANGED << panelHandler, panelData, panelIndex, panelSeen,
                  panelSelects >>

IdlePanels ==
  /\ panelHandler = "none"
  /\ panelData = << >>
  /\ panelIndex = 0
  /\ panelSeen = << >>
  /\ panelSelects = << >>
  /\ panelPc = "idle"

(***************************************************************************)
(* The input shapes of submitCompleteForm.  A property of req.body is a    *)
(* JavaScript value: undefined (not set), null, a string, an object or an  *)
(* array of objects.  The try block turns vehicles / vehicleData and       *)
(* drivers / driverData / userData into the two lists it hands to          *)
(* fillMultiVehicleDriverForm.                                             *)
(***************************************************************************)
MaxItems == 2

JsUndefined == [kind |-> "undefined"]

JsNull == [kind |-> "null"]

JsString == [kind |-> "string", s |-> "x"]

JsObjects == {[kind |-> "object", id |-> n] : n \in {"a", "b"}}

JsArrays ==
  {[kind |-> "array", items |-> xs] :
     xs \in UNION {[1..n -> JsObjects] : n \in 0..MaxItems}}

\* Array.isArray(v)
IsArray(v) == v.kind = "array"

\* JavaScript truthiness: arrays (empty ones too) and objects are truthy,
\* undefined and null are not, a string is when it is not empty.
JsTruthy(v) ==
  CASE v.kind = "undefined" -> FALSE
    [] v.kind = "null"      -> FALSE
    [] v.kind = "string"    -> v.s # ""
    [] OTHER                -> TRUE

Bodies ==
  [vehicles : {JsUndefined, JsNull, JsString} \cup JsArrays,
   vehicleData : {JsUndefined, JsNull} \cup JsObjects,
   drivers : {JsUndefined, JsString} \cup JsArrays,
   driverData : {JsUndefined} \cup JsObjects,
   userData : {JsUndefined} \cup JsObjects]

\* A normalisation that accepts the list form only.
processedVehicles_ArrayOnly(b) ==
  IF JsTruthy(b.vehicles) /\ IsArray(b.vehicles)
  THEN b.vehicles.items
  ELSE << >>

\* Lines 112-119.
processedVehicles(b) ==
  IF JsTruthy(b.vehicles) /\ IsArray(b.vehicles)
  THEN b.vehicles.items
  ELSE IF JsTruthy(b.vehicleData)
  THEN << b.vehicleData >>
  ELSE << >>

\* Lines 122-138.
processedDriverList(b) ==
  LET given == IF JsTruthy(b.drivers) /\ IsArray(b.drivers)
               THEN b.drivers.items
               ELSE IF JsTruthy(b.driverData)
               THEN << b.driverData >>
               ELSE << >>
  IN  IF Len(given) = 0 /\ JsTruthy(b.userData)
      THEN << b.userData >>
      ELSE given

NoCoreCall == [called |-> FALSE]

VARIABLES body, shapePc, coreCall

shapeVars == << body, shapePc, coreCall >>

InitShape ==
  /\ body \in Bodies
  /\ shapePc = "validate"
  /\ coreCall = NoCoreCall

\* The validations and automator.initialize() between the normalisation and
\* the call: the request is rejected, something throws, or the call is next.
ValidateLists ==
  /\ shapePc = "validate"
  /\ shapePc' \in {"rejected", "threw", "call"}
  /\ UNCHANGED << body, coreCall >>

\* automator.fillMultiVehicleDriverForm(processedVehicles, processedDrivers,
\* policyInfo, userData)
CallCore ==
  /\ shapePc = "call"
  /\ coreCall' = [called |-> TRUE,
                  vehicles |-> processedVehicles(body),
                  drivers |-> processedDriverList(body),
                  userData |-> body.userData]
  /\ shapePc' = "called"
  /\ UNCHANGED body

IdleShape ==
  /\ body = Absent
  /\ shapePc = "idle"
  /\ coreCall = NoCoreCall

(***************************************************************************)
(* Continuation controls.  Three handlers as they treat the control that   *)
(* advances their page: the address-confirmation branch of                 *)
(* analyzeSubmissionResult, handleCoverageOptionsStep and                  *)
(* handleVehicleUsageStep.  contClicks lists the continuation controls on  *)
(* which a click was delivered in the invocation.                          *)
(***************************************************************************)
\* The fallback selectors of the address-confirmation branch, in order.
PossibleSelectors ==
  << "#useSuggestedAddress", "button[type=\"submit\"]", ".pageButton",
     "#pg0btn" >>

ContinueInput == "input[value=\"Continue\"]"

\* The address-confirmation interstitial: how many Continue inputs it has,
\* whether a click on the first throws, which fallback selectors match and
\* which of those throw when clicked.
AddressPages ==
  { pg \in [continueButtons : 0..1,
            continueThrows : BOOLEAN,
            present : SUBSET (1..Len(PossibleSelectors)),
            throwing : SUBSET (1..Len(PossibleSelectors))] :
      /\ pg.throwing \subseteq pg.present
      /\ pg.continueThrows => pg.continueButtons > 0 }

\* The page handleCoverageOptionsStep finds after its waits: pageDetection,
\* the number of package buttons, whether any other Select button or button
\* exists, whether #pg7btn exists and whether clickButton succeeds on it.
CoveragePages ==
  [hasPg6 : BOOLEAN, hasPg7 : BOOLEAN, hasPg8 : BOOLEAN,
   coverageCount : 0..1, otherButtons : BOOLEAN,
   pg7btn : BOOLEAN, clickOk : BOOLEAN]

\* The vehicle usage page: whether clickButton succeeds on #pg2btn.
UsagePages == [clickOk : BOOLEAN]

ContinueHandlers ==
  {"analyzeSubmissionResult", "handleCoverageOptionsStep",
   "handleVehicleUsageStep"}

ContPagesOf(h) ==
  CASE h = "analyzeSubmissionResult"   -> AddressPages
    [] h = "handleCoverageOptionsStep" -> CoveragePages
    [] OTHER                           -> UsagePages

\* The fallback selectors whose click goes through.
Clickable(pg) == pg.present \ pg.throwing

\* Lines 1658-1697: the click delivered on the interstitial, if any.
AddressClicks(pg) ==
  IF pg.continueButtons > 0
  THEN IF pg.continueThrows THEN << >> ELSE << ContinueInput >>
  ELSE IF Clickable(pg) # {}
  THEN << PossibleSelectors[CHOOSE k \in Clickable(pg) :
                              \A j \in Clickable(pg) : k <= j] >>
  ELSE << >>

ContResult(success, step) ==
  [returned |-> TRUE, success |-> success, step |-> step]

NoContResult == [returned |-> FALSE, success |-> FALSE, step |-> "none"]

VARIABLES contHandler, contPage, contClicks, contResult

contVars == << contHandler, contPage, contClicks, contResult >>

InitCont ==
  /\ contHandler \in ContinueHandlers
  /\ contPage \in ContPagesOf(contHandler)
  /\ contClicks = << >>
  /\ contResult = NoContResult

\* analyzeSubmissionResult with #addressConfirmsection visible: whatever the
\* clicking did, the result is success.
AnalyzeAddressValidation ==
  /\ contHandler = "analyzeSubmissionResult"
  /\ ~contResult.returned
  /\ contClicks' = AddressClicks(contPage)
  /\ contResult' = ContResult(TRUE, "address_validation_completed")
  /\ UNCHANGED << contHandler, contPage >>

\* handleCoverageOptionsStep from pageDetection on.
HandleCoverageOptionsStep ==
  /\ contHandler = "handleCoverageOptionsStep"
  /\ ~contResult.returned
  /\ LET pg == contPage
     IN IF pg.hasPg6 /\ ~pg.hasPg7
        THEN /\ contResult' = ContResult(FALSE, "coverage_step_wrong_page")
             /\ contClicks' = contClicks
        ELSE IF pg.hasPg8 /\ ~pg.hasPg7
        THEN /\ contResult' = ContResult(TRUE, "coverage_options_skipped")
             /\ contClicks' = contClicks
        ELSE IF pg.coverageCount = 0
        THEN /\ contResult' =
                  IF pg.otherButtons
                  THEN ContResult(TRUE, "coverage_selected")
                  ELSE ContResult(FALSE, "coverage_options_not_found")
             /\ contClicks' = contClicks
        ELSE IF pg.pg7btn
        THEN IF pg.clickOk
             THEN /\ contResult' = ContResult(TRUE, "coverage_options_completed")
                  /\ contClicks' = Append(contClicks, "#pg7btn")
             ELSE /\ contResult' = ContResult(FALSE, "coverage_options_error")
                  /\ contClicks' = contClicks
        ELSE /\ contResult' = ContResult(TRUE, "coverage_options_completed")
             /\ contClicks' = contClicks
  /\ UNCHANGED << contHandler, contPage >>

\* handleVehicleUsageStep from its clickButton call on: a clickButton that
\* throws is caught and returned as a failure.
HandleVehicleUsageContinue ==
  /\ contHandler = "handleVehicleUsageStep"
  /\ ~contResult.returned
  /\ IF contPage.clickOk
     THEN /\ contResult' = ContResult(TRUE, "vehicle_usage_completed")
          /\ contClicks' = Append(contClicks, "#pg2btn")
     ELSE /\ contResult' = ContResult(FALSE, "vehicle_usage_error")
          /\ contClicks' = contClicks
  /\ UNCHANGED << contHandler, contPage >>

IdleCont ==
  /\ contHandler = "none"
  /\ contPage = Absent
  /\ contClicks = << >>
  /\ contResult = NoContResult

(***************************************************************************)
(* handleContactMethodStep.  clickables is the document's list of          *)
(* clickable elements (querySelectorAll order), each visible or not and    *)
(* with the text the matching reads (textContent, value, className and id  *)
(* joined).  Positions in the model are 1-based; the code's indices are    *)
(* 0-based.                                                                *)
(***************************************************************************)
MaxElements == 3

ControlTexts == {"Phone", "Email", "Next"}

Clickables ==
  UNION {[1..n -> [visible : BOOLEAN, text : ControlTexts]] :
           n \in 0..MaxElements}

ContactPreferences == {"email", "phone", "Call"}

\* Line 3001.
isPhonePreference(pref) ==
  toLowerCase(pref) = "phone" \/ toLowerCase(pref) = "call"

\* The filter of strategy 1 (lines 3005-3012).
MatchesPreference(txt, pref) ==
  LET t == toLowerCase(txt)
  IN IF isPhonePreference(pref)
     THEN Includes(t, "phone") \/ Includes(t, "call")
            \/ (Includes(t, "contact") /\ Includes(t, "phone"))
     ELSE Includes(t, "email") \/ Includes(t, "mail")
            \/ (Includes(t, "contact") /\ Includes(t, "email"))

\* The document positions of the visible elements, in document order: the
\* list visibleClickables the click scripts build.
RECURSIVE VisiblePositions(_, _)
VisiblePositions(els, k) ==
  IF k > Len(els) THEN << >>
  ELSE IF els[k].visible
  THEN << k >> \o VisiblePositions(els, k + 1)
  ELSE VisiblePositions(els, k + 1)

\* allClickableElements (2979-2994): each element gets its index in the
\* document list, then the hidden ones are filtered out.
allClickableElements(els) ==
  LET vis == VisiblePositions(els, 1)
  IN [n \in 1..Len(vis) |->
        [index |-> vis[n] - 1, text |-> els[vis[n]].text]]

preferredButtons(els, pref) ==
  SelectSeq(allClickableElements(els),
            LAMBDA e : MatchesPreference(e.text, pref))

\* visibleClickables[index].click(): the document position clicked, or 0 when
\* visibleClickables has no such index.
ClickVisibleAt(els, index) ==
  LET vis == VisiblePositions(els, 1)
  IN IF index + 1 <= Len(vis) THEN vis[index + 1] ELSE 0

VARIABLES clickables, contactPreference, contactClick, contactResult

contactVars == << clickables, contactPreference, contactClick, contactResult >>

InitContact ==
  /\ clickables \in Clickables
  /\ contactPreference \in ContactPreferences
  /\ contactClick = 0
  /\ contactResult = NoContResult

\* Strategies 1 to 4 and the result.
HandleContactMethodStep ==
  /\ ~contactResult.returned
  /\ LET all == allClickableElements(clickables)
         preferred == preferredButtons(clickables, contactPreference)
     IN IF Len(preferred) > 0
        THEN /\ contactClick' = ClickVisibleAt(clickables, preferred[1].index)
             /\ contactResult' = ContResult(TRUE, "contact_method_completed")
        ELSE IF Len(all) >= 2
        THEN /\ contactClick' =
                  ClickVisibleAt(clickables,
                                 IF isPhonePreference(contactPreference)
                                 THEN 0 ELSE 1)
             /\ contactResult' = ContResult(TRUE, "contact_method_completed")
        ELSE IF Len(all) = 1
        THEN /\ contactClick' = ClickVisibleAt(clickables, 0)
             /\ contactResult' = ContResult(TRUE, "contact_method_completed")
        ELSE /\ contactClick' = 0
             /\ contactResult' = ContResult(FALSE, "contact_method_failed")
  /\ UNCHANGED << clickables, contactPreference >>

\* A page call of the handler throws: the catch returns a failure.
ContactMethodThrows ==
  /\ ~contactResult.returned
  /\ contactResult' = ContResult(FALSE, "contact_method_error")
  /\ UNCHANGED << clickables, contactPreference, contactClick >>

IdleContact ==
  /\ clickables = << >>
  /\ contactPreference = "none"
  /\ contactClick = 0
  /\ contactResult = NoContResult

(***************************************************************************)
(* Quote selection in handleQuoteResultsStep.  quoteCount is quotes.length *)
(* of the extraction, selectButtons the number of .carrierSelectAu         *)
(* elements on the page, selectQuote the caller's                          *)
(* quotePreference.selectQuote.  Indices are 0-based as in the code.       *)
(***************************************************************************)
MaxButtons == 3

\* quotePreference.selectQuote: not set, a value that is not a number, or a
\* number.
SelectQuoteValues ==
  {JsUndefined, JsString} \cup
    {[kind |-> "number", n |-> k] : k \in 0..MaxQuotes}

\* Lines 3284-3285.
quoteIndex(v) == IF v.kind = "number" THEN v.n ELSE 0

NoSelectClick == [delivered |-> FALSE]

\* humanClick(selector): page.$(selector) is the first element matching the
\* selector; the click goes to it unless a page call throws.
humanClick(matching, throws) ==
  IF matching = 0 \/ throws
  THEN NoSelectClick
  ELSE [delivered |-> TRUE, button |-> 0]

VARIABLES quoteCount, selectButtons, selectQuote, selectClick, selectPc

selectVars == << quoteCount, selectButtons, selectQuote, selectClick, selectPc >>

InitSelect ==
  /\ quoteCount \in 0..MaxQuotes
  /\ selectButtons \in 0..MaxButtons
  /\ selectQuote \in SelectQuoteValues
  /\ selectClick = NoSelectClick
  /\ selectPc = "select"

\* Lines 3282-3317: the guarded selection click.
SelectQuote ==
  /\ selectPc = "select"
  /\ IF /\ selectQuote # JsUndefined
        /\ quoteIndex(selectQuote) < quoteCount
        /\ quoteIndex(selectQuote) < selectButtons
     THEN \E throws \in BOOLEAN :
            selectClick' = humanClick(selectButtons, throws)
     ELSE selectClick' = NoSelectClick
  /\ selectPc' = "selected"
  /\ UNCHANGED << quoteCount, selectButtons, selectQuote >>

\* The rest of the handler: it returns, or a page call throws.
QuoteStepReturns ==
  /\ selectPc = "selected"
  /\ selectPc' \in {"returned", "failed"}
  /\ UNCHANGED << quoteCount, selectButtons, selectQuote, selectClick >>

IdleSelect ==
  /\ quoteCount = 0
  /\ selectButtons = 0
  /\ selectQuote = JsUndefined
  /\ selectClick = NoSelectClick
  /\ selectPc = "idle"

(***************************************************************************)
(* The readiness race of fillFirstStep: Promise.race over four             *)
(* waitForSelector probes, each mapped to a tag by .then, with a .catch    *)
(* that throws.  A probe resolves once its selector is in the page and     *)
(* rejects when its timeout expires first.  The probes are started one     *)
(* after the other with the same timeout, so their timeouts expire in      *)
(* start order.  Promise.race settles as the first of its promises to      *)
(* settle does.                                                            *)
(***************************************************************************)
\* The tags of the four probes in start order (#FirstName, #residence,
\* input[type="text"], #container).
ProbeTags == << "firstname", "form", "input", "container" >>

ProbeIds == 1..Len(ProbeTags)

VARIABLES inPage, probes, formReady

raceVars == << inPage, probes, formReady >>

InitRace ==
  /\ inPage \in SUBSET ProbeIds
  /\ probes = [p \in ProbeIds |-> "pending"]
  /\ formReady = "pending"

\* The page renders the element a probe waits for.
ElementAppears ==
  /\ \E p \in ProbeIds \ inPage : inPage' = inPage \cup {p}
  /\ UNCHANGED << probes, formReady >>

\* A probe finds its selector and resolves with its tag; the race, when still
\* pending, is fulfilled with it.
ProbeResolves ==
  /\ \E p \in ProbeIds :
       /\ probes[p] = "pending"
       /\ p \in inPage
       /\ probes' = [probes EXCEPT ![p] = "resolved"]
       /\ formReady' = IF formReady = "pending" THEN ProbeTags[p] ELSE formReady
  /\ UNCHANGED inPage

\* A probe's timeout expires (after those of the probes started before it):
\* it rejects; the race, when still pending, is rejected with it and the
\* catch handler throws.
ProbeRejects ==
  /\ \E p \in ProbeIds :
       /\ probes[p] = "pending"
       /\ p \notin inPage
       /\ \A q \in ProbeIds : q < p => probes[q] # "pending"
       /\ probes' = [probes EXCEPT ![p] = "rejected"]
       /\ formReady' = IF formReady = "pending" THEN "rejected" ELSE formReady
  /\ UNCHANGED inPage

IdleRace ==
  /\ inPage = {}
  /\ probes = << >>
  /\ formReady = "idle"

(***************************************************************************)
(* The waits of handleVehicleDetailsForm.  The form's make dropdown is     *)
(* populated by the site after a year is selected, the model dropdown      *)
(* after a make is selected, and #pg1btn is enabled when the form is       *)
(* valid.  waitForMakeDropdown and waitForModelDropdown catch their own    *)
(* timeout and return; waitForContinueButton throws.  The option matching  *)
(* itself is HandleVehicleDetailsForm above: here a matching is an entry   *)
(* of matchLog with what the wait before it observed.                      *)
(***************************************************************************)
\* Which of year, make and model the caller's vehicleData holds.
VehicleDataShapes == [year : BOOLEAN, make : BOOLEAN, model : BOOLEAN]

\* What a dropdown wait ends with: both waitForFunction calls passed, or one
\* timed out (caught and logged).
WaitOutcomes == {"populated", "timeout"}

\* #pg1btn as the page has it.
ButtonStates == {"missing", "disabled", "enabled"}

DetailsResult(success, step) ==
  [returned |-> TRUE, success |-> success, step |-> step]

NoDetailsResult == [returned |-> FALSE, success |-> FALSE, step |-> "none"]

DetailsFailure == DetailsResult(FALSE, "vehicle_details_error")

VARIABLES vehicleData, detailsPc, makeWait, modelWait, matchLog, button,
          buttonSeen, continueClicks, detailsResult

detailsVars == << vehicleData, detailsPc, makeWait, modelWait, matchLog,
                 button, buttonSeen, continueClicks, detailsResult >>

InitDetails ==
  /\ vehicleData \in VehicleDataShapes
  /\ detailsPc = "year"
  /\ makeWait = "none"
  /\ modelWait = "none"
  /\ matchLog = << >>
  /\ button \in ButtonStates
  /\ buttonSeen = "unobserved"
  /\ continueClicks = 0
  /\ detailsResult = NoDetailsResult

\* Lines 957-965: the year is selected, then waitForMakeDropdown returns,
\* populated or timed out.
SelectYear ==
  /\ detailsPc = "year"
  /\ IF vehicleData.year
     THEN \E w \in WaitOutcomes : makeWait' = w
     ELSE makeWait' = makeWait
  /\ detailsPc' = "make"
  /\ UNCHANGED << vehicleData, modelWait, matchLog, button, buttonSeen,
                  continueClicks, detailsResult >>

\* Lines 967-1014: the make options are read and matched; a match is selected
\* and waitForModelDropdown returns, no match throws.
MatchMake ==
  /\ detailsPc = "make"
  /\ IF vehicleData.make
     THEN /\ matchLog' = Append(matchLog, [field |-> "make", wait |-> makeWait])
          /\ \E found \in BOOLEAN :
               IF found
               THEN /\ \E w \in WaitOutcomes : modelWait' = w
                    /\ detailsPc' = "model"
                    /\ detailsResult' = detailsResult
               ELSE /\ modelWait' = modelWait
                    /\ detailsPc' = "done"
                    /\ detailsResult' = DetailsFailure
     ELSE /\ detailsPc' = "model"
          /\ UNCHANGED << matchLog, modelWait, detailsResult >>
  /\ UNCHANGED << vehicleData, makeWait, button, buttonSeen, continueClicks >>

\* Lines 1016-1060: the model options are read and matched.
MatchModel ==
  /\ detailsPc = "model"
  /\ IF vehicleData.model
     THEN /\ matchLog' = Append(matchLog,
                                [field |-> "model", wait |-> modelWait])
          /\ \E found \in BOOLEAN :
               IF found
               THEN detailsPc' = "continue" /\ detailsResult' = detailsResult
               ELSE detailsPc' = "done" /\ detailsResult' = DetailsFailure
     ELSE /\ detailsPc' = "continue"
          /\ UNCHANGED << matchLog, detailsResult >>
  /\ UNCHANGED << vehicleData, makeWait, modelWait, button, buttonSeen,
                  continueClicks >>

\* A wait for the continue button that logs its failure and returns.
WaitForContinueButton_LogsAndReturns ==
  /\ detailsPc = "continue"
  /\ \E b \in (IF button = "disabled" THEN {"disabled", "enabled"}
               ELSE {button}) :
       /\ button' = b
       /\ buttonSeen' = CASE b = "missing"  -> "missing"
                          [] b = "disabled" -> "timeout"
                          [] OTHER          -> "enabled"
  /\ detailsPc' = "click"
  /\ UNCHANGED << vehicleData, makeWait, modelWait, matchLog, continueClicks,
                  detailsResult >>

\* waitForContinueButton: throws when the button is missing; returns when it
\* is enabled, at once or within the timeout of its waitForFunction; throws
\* when it stays disabled.  A throw goes to the handler's catch.
WaitForContinueButton ==
  /\ detailsPc = "continue"
  /\ \E b \in (IF button = "disabled" THEN {"disabled", "enabled"}
               ELSE {button}) :
       /\ button' = b
       /\ buttonSeen' = CASE b = "missing"  -> "missing"
                          [] b = "disabled" -> "timeout"
                          [] OTHER          -> "enabled"
       /\ IF b = "enabled"
          THEN detailsPc' = "click" /\ detailsResult' = detailsResult
          ELSE detailsPc' = "done" /\ detailsResult' = DetailsFailure
  /\ UNCHANGED << vehicleData, makeWait, modelWait, matchLog, continueClicks >>

\* Lines 1065-1077: clickButton('#pg1btn'); when it throws the catch returns a
\* failure.
ClickContinue ==
  /\ detailsPc = "click"
  /\ continueClicks' = continueClicks + 1
  /\ \E ok \in BOOLEAN :
       detailsResult' = IF ok
                        THEN DetailsResult(TRUE, "vehicle_details_completed")
                        ELSE DetailsFailure
  /\ detailsPc' = "done"
  /\ UNCHANGED << vehicleData, makeWait, modelWait, matchLog, button,
                  buttonSeen >>

IdleDetails ==
  /\ vehicleData = Absent
  /\ detailsPc = "idle"
  /\ makeWait = "none"
  /\ modelWait = "none"
  /\ matchLog = << >>
  /\ button = "missing"
  /\ buttonSeen = "unobserved"
  /\ continueClicks = 0
  /\ detailsResult = NoDetailsResult

(***************************************************************************)
(* The date of birth in handleDriverInformationStep.  The #drvDOB field is *)
(* set by up to three methods, each in its own try/catch: assignment of    *)
(* the caller's value, assignment of the mm/dd/yyyy form, and typing the   *)
(* mm/dd/yyyy form.  After each the field is read back; a read-back that   *)
(* is not empty and does not contain 1753 sets dobSet.  The handler then   *)
(* fills the remaining fields and clicks #pg4btn.                          *)
(***************************************************************************)
\* The caller's driverData.dateOfBirth: not set, or a date.
BirthDates == {Undefined, "1990-05-15", "05/15/1990"}

\* What the field holds when read: nothing, the site's unset date, a date.
DobFieldValues == {"", "1753-01-01", "1990-05-15"}

\* s.split('-')
RECURSIVE SplitDash(_)
SplitDash(s) ==
  IF ~Includes(s, "-") THEN << s >>
  ELSE LET k == CHOOSE n \in 1..Len(s) :
                  /\ SubSeq(s, n, n) = "-"
                  /\ \A m \in 1..(n - 1) : SubSeq(s, m, m) # "-"
       IN << SubSeq(s, 1, k - 1) >> \o SplitDash(SubSeq(s, k + 1, Len(s)))

\* Lines 2008-2012.
formattedDate(d) ==
  IF Includes(d, "-")
  THEN LET p == SplitDash(d) IN p[2] \o "/" \o p[3] \o "/" \o p[1]
  ELSE d

\* The test of a read-back: testValue && !testValue.includes('1753').
DobAccepted(v) == v # "" /\ ~Includes(v, "1753")

DriverResult(success, step) ==
  [returned |-> TRUE, success |-> success, step |-> step]

NoDriverResult == [returned |-> FALSE, success |-> FALSE, step |-> "none"]

VARIABLES dateOfBirth, dobExists, dobValue, dobSet, dobLog, drvPc,
          drvFailedIn, drvResult

dobVars == << dateOfBirth, dobExists, dobValue, dobSet, dobLog, drvPc,
             drvFailedIn, drvResult >>

InitDob ==
  /\ dateOfBirth \in BirthDates
  /\ dobExists \in BOOLEAN
  /\ dobValue \in {"", "1753-01-01"}
  /\ dobSet = FALSE
  /\ dobLog = << >>
  /\ drvPc = "begin"
  /\ drvFailedIn = "none"
  /\ drvResult = NoDriverResult

\* Lines 1999-2005: no date supplied or no #drvDOB: the ladder is skipped.
BeginDob ==
  /\ drvPc = "begin"
  /\ drvPc' = IF Truthy(dateOfBirth) /\ dobExists THEN "iso" ELSE "fields"
  /\ UNCHANGED << dateOfBirth, dobExists, dobValue, dobSet, dobLog,
                  drvFailedIn, drvResult >>

\* One method of the ladder: the value is entered and the field read back
\* (rb is what the field then holds), or a page call throws before the
\* read-back and the method's catch logs it.
DobMethod(method, entered, next) ==
  /\ \E throws \in BOOLEAN, rb \in DobFieldValues :
       IF throws
       THEN /\ dobLog' = Append(dobLog, [method |-> method, entered |-> entered,
                                         readback |-> "none"])
            /\ UNCHANGED << dobValue, dobSet >>
       ELSE /\ dobLog' = Append(dobLog, [method |-> method, entered |-> entered,
                                         readback |-> rb])
            /\ dobValue' = rb
            /\ dobSet' = (dobSet \/ DobAccepted(rb))
  /\ drvPc' = next
  /\ UNCHANGED << dateOfBirth, dobExists, drvFailedIn, drvResult >>

\* A method skipped because dobSet holds.
DobSkip(next) ==
  /\ drvPc' = next
  /\ UNCHANGED << dateOfBirth, dobExists, dobValue, dobSet, dobLog,
                  drvFailedIn, drvResult >>

\* Method 1 (2020-2038).
IsoAssign ==
  /\ drvPc = "iso"
  /\ DobMethod("iso", dateOfBirth, "locale")

\* A second method that runs whatever the first read back.
LocaleAssign_IgnoresDobSet ==
  /\ drvPc = "locale"
  /\ DobMethod("locale", formattedDate(dateOfBirth), "typed")

\* Method 2 (2040-2060): if (!dobSet).
LocaleAssign ==
  /\ drvPc = "locale"
  /\ IF dobSet
     THEN DobSkip("typed")
     ELSE DobMethod("locale", formattedDate(dateOfBirth), "typed")

\* Method 3 (2062-2083): if (!dobSet).
TypeChars ==
  /\ drvPc = "typed"
  /\ IF dobSet
     THEN DobSkip("verify")
     ELSE DobMethod("typed", formattedDate(dateOfBirth), "verify")

\* A handler for which a date of birth that was not set is an error.
VerifyDob_UnsetIsFatal ==
  /\ drvPc = "verify"
  /\ IF dobSet
     THEN drvPc' = "fields" /\ UNCHANGED << drvFailedIn, drvResult >>
     ELSE /\ drvPc' = "done"
          /\ drvFailedIn' = "dob"
          /\ drvResult' = DriverResult(FALSE, "driver_info_error")
  /\ UNCHANGED << dateOfBirth, dobExists, dobValue, dobSet, dobLog >>

\* Lines 2085-2097: the final read of the field only logs; a throw is caught
\* by the try around the whole ladder.
VerifyDob ==
  /\ drvPc = "verify"
  /\ drvPc' = "fields"
  /\ UNCHANGED << dateOfBirth, dobExists, dobValue, dobSet, dobLog,
                  drvFailedIn, drvResult >>

\* Lines 2101-2160: gender, marital status, licence fields, violations; a
\* page.select that throws goes to the handler's catch.
FillRemainingFields ==
  /\ drvPc = "fields"
  /\ \E ok \in BOOLEAN :
       IF ok
       THEN drvPc' = "continue" /\ UNCHANGED << drvFailedIn, drvResult >>
       ELSE /\ drvPc' = "done"
            /\ drvFailedIn' = "fields"
            /\ drvResult' = DriverResult(FALSE, "driver_info_error")
  /\ UNCHANGED << dateOfBirth, dobExists, dobValue, dobSet, dobLog >>

\* Lines 2162-2185: clickButton('#pg4btn') and the result.
ClickDriverContinue ==
  /\ drvPc = "continue"
  /\ \E ok \in BOOLEAN :
       IF ok
       THEN /\ drvResult' = DriverResult(TRUE, "driver_info_completed")
            /\ drvFailedIn' = drvFailedIn
       ELSE /\ drvResult' = DriverResult(FALSE, "driver_info_error")
            /\ drvFailedIn' = "continue"
  /\ drvPc' = "done"
  /\ UNCHANGED << dateOfBirth, dobExists, dobValue, dobSet, dobLog >>

IdleDob ==
  /\ dateOfBirth = Undefined
  /\ dobExists = FALSE
  /\ dobValue = ""
  /\ dobSet = FALSE
  /\ dobLog = << >>
  /\ drvPc = "idle"
  /\ drvFailedIn = "none"
  /\ drvResult = NoDriverResult

(***************************************************************************)
(* handleAgreementCheckbox.  The page decides what a click on the          *)
(* #verifyDisclosure checkbox and on its label does: it toggles the        *)
(* checkbox, is ignored, or throws.  The strategies are the nested         *)
(* try/catch of the page script: each catch holds the next strategy.       *)
(***************************************************************************)
ClickEffects == {"toggles", "ignored", "throws"}

\* The disclosure control as the page has it.
AgreementPages ==
  [exists : BOOLEAN, checked : BOOLEAN, click : ClickEffects,
   hasLabel : BOOLEAN, labelClick : ClickEffects]

\* The page script of lines 1493-1525 on an existing, unchecked checkbox: the
\* strategies tried and whether the checkbox is checked at the end (which is
\* also what the script returns, except that it returns false when the label
\* is missing).  The third strategy reads label, which is declared in the
\* try block of the second and is out of scope in its catch: it throws, and
\* its catch is the programmatic assignment.
CheckboxScript(pg) ==
  IF pg.click # "throws"
  THEN [tried |-> << "direct" >>, checked |-> pg.click = "toggles",
        returns |-> pg.click = "toggles"]
  ELSE IF ~pg.hasLabel
  THEN [tried |-> << "direct", "label" >>, checked |-> FALSE,
        returns |-> FALSE]
  ELSE IF pg.labelClick # "throws"
  THEN [tried |-> << "direct", "label" >>,
        checked |-> pg.labelClick = "toggles",
        returns |-> pg.labelClick = "toggles"]
  ELSE [tried |-> << "direct", "label", "checkmark", "assign" >>,
        checked |-> TRUE, returns |-> TRUE]

VARIABLES agreePage, agreeChecked, agreeTried, agreeReported, agreePc

agreeVars == << agreePage, agreeChecked, agreeTried, agreeReported, agreePc >>

InitAgree ==
  /\ agreePage \in AgreementPages
  /\ agreeChecked = agreePage.checked
  /\ agreeTried = << >>
  /\ agreeReported = FALSE
  /\ agreePc = "start"

\* The handler: $eval of the checked state (throws when the control is
\* missing), then the page script when it is unchecked.
HandleAgreementCheckbox ==
  /\ agreePc = "start"
  /\ agreePage.exists
  /\ IF agreePage.checked
     THEN UNCHANGED << agreeChecked, agreeTried, agreeReported >>
     ELSE /\ agreeChecked' = CheckboxScript(agreePage).checked
          /\ agreeTried' = CheckboxScript(agreePage).tried
          /\ agreeReported' = CheckboxScript(agreePage).returns
  /\ agreePc' = "returned"
  /\ UNCHANGED agreePage

\* No #verifyDisclosure: page.$eval rejects and the handler throws.
AgreementCheckboxMissing ==
  /\ agreePc = "start"
  /\ ~agreePage.exists
  /\ agreePc' = "threw"
  /\ UNCHANGED << agreePage, agreeChecked, agreeTried, agreeReported >>

IdleAgree ==
  /\ agreePage = Absent
  /\ agreeChecked = FALSE
  /\ agreeTried = << >>
  /\ agreeReported = FALSE
  /\ agreePc = "idle"

(***************************************************************************)
(* handlePolicyInformationStep: the insured block and the start date.      *)
(* policyInfo.currentlyInsured is a JavaScript value of the request body;  *)
(* a date is the string the code compares and assigns, kept as the         *)
(* sequence of its character codes so that < and > are the string          *)
(* comparisons of JavaScript.                                              *)
(***************************************************************************)
JsBooleans == {[kind |-> "boolean", b |-> v] : v \in BOOLEAN}

\* The truthiness test of lines 2239 and 2242 on the insured flag.
InsuredTruthy(v) == IF v.kind = "boolean" THEN v.b ELSE JsTruthy(v)

InsuredFlags == {JsUndefined, JsNull, JsString} \cup JsBooleans

PolicyYears == {2025, 2026}

PolicyMonths == {9, 10}

PolicyDays == {9, 10}

CalendarDates == [y : PolicyYears, m : PolicyMonths, d : PolicyDays]

Dash == 45

Digit(n) == 48 + n

\* YYYY-MM-DD, as toISOString().split('T')[0] and the min / max attributes
\* of a date input give it.
IsoString(date) ==
  << Digit(date.y \div 1000), Digit((date.y \div 100) % 10),
     Digit((date.y \div 10) % 10), Digit(date.y % 10), Dash,
     Digit(date.m \div 10), Digit(date.m % 10), Dash,
     Digit(date.d \div 10), Digit(date.d % 10) >>

IsoDates == {IsoString(date) : date \in CalendarDates}

\* The empty string: no startDate supplied, no min or max attribute.
NoDate == << >>

\* The day an ISO string names, as a number that orders the calendar.
DayNumber(s) ==
  ((s[1] - 48) * 1000 + (s[2] - 48) * 100 + (s[3] - 48) * 10 + (s[4] - 48))
    * 10000
  + ((s[6] - 48) * 10 + (s[7] - 48)) * 100
  + ((s[9] - 48) * 10 + (s[10] - 48))

\* a < b on JavaScript strings: code unit by code unit, a proper prefix
\* first.
RECURSIVE StringLess(_, _)
StringLess(a, b) ==
  IF b = << >> THEN FALSE
  ELSE IF a = << >> THEN TRUE
  ELSE IF Head(a) # Head(b) THEN Head(a) < Head(b)
  ELSE StringLess(Tail(a), Tail(b))

\* A clamp that knows the lower end only.
ClampStartDate_MinOnly(requested, min, max) ==
  IF min # NoDate /\ StringLess(requested, min) THEN min ELSE requested

\* Lines 2291-2303: targetDate after the min test and the max test.
ClampStartDate(requested, min, max) ==
  LET afterMin == IF min # NoDate /\ StringLess(requested, min)
                  THEN min ELSE requested
  IN  IF max # NoDate /\ StringLess(max, afterMin) THEN max ELSE afterMin

StartDateFields ==
  {Absent} \cup
  [type : {"date", "text"}, min : IsoDates \cup {NoDate},
   max : IsoDates \cup {NoDate}]

PolicyInfos ==
  [currentlyInsured : InsuredFlags, priorCarrier : BOOLEAN,
   reasonNoInsurance : BOOLEAN, startDate : IsoDates \cup {NoDate}]

VARIABLES policyInfo, insuredPan, startDateField, today, polWrites,
          polTarget, polAssigned, polPc, polResult

policyVars ==
  << policyInfo, insuredPan, startDateField, today, polWrites, polTarget,
     polAssigned, polPc, polResult >>

NoPolicyResult == [none |-> TRUE]

PolicyResult(ok) == [success |-> ok]

InitPolicy ==
  /\ policyInfo \in PolicyInfos
  /\ insuredPan \in {"visible", "hidden", "missing"}
  /\ startDateField \in StartDateFields
  /\ today \in IsoDates
  /\ polWrites = {}
  /\ polTarget = NoDate
  /\ polAssigned = NoDate
  /\ polPc = "insured"
  /\ polResult = NoPolicyResult

\* The selectors the insured block writes when nothing throws: #Insured
\* always, then the prior-insurance fields or the reason.
InsuredBlockWrites(info) ==
  {"#Insured"}
  \cup (IF InsuredTruthy(info.currentlyInsured)
        THEN (IF info.priorCarrier THEN {"#PriorCarrier"} ELSE {})
        ELSE IF info.reasonNoInsurance THEN {"#ReasonNoInsurance"}
        ELSE {})

\* An insured block that fills in both halves.
SelectInsured_WritesBoth ==
  /\ polPc = "insured"
  /\ polWrites' = {"#Insured", "#PriorCarrier", "#ReasonNoInsurance"}
  /\ polPc' = "date"
  /\ UNCHANGED << policyInfo, insuredPan, startDateField, today, polTarget,
                  polAssigned, polResult >>

\* Lines 2233-2273.  #InsuredPan missing makes $eval reject, which the
\* catch turns into false.  A page.select on an option the page does not
\* have throws to the catch of the handler, with #Insured already written.
SelectInsured ==
  /\ polPc = "insured"
  /\ IF insuredPan = "visible" /\ policyInfo.currentlyInsured # JsUndefined
     THEN \/ /\ polWrites' = InsuredBlockWrites(policyInfo)
             /\ polPc' = "date"
             /\ UNCHANGED polResult
          \/ /\ polWrites' \in {{}, {"#Insured"}}
             /\ polPc' = "done"
             /\ polResult' = PolicyResult(FALSE)
     ELSE /\ polWrites' = {}
          /\ polPc' = "date"
          /\ UNCHANGED polResult
  /\ UNCHANGED << policyInfo, insuredPan, startDateField, today, polTarget,
                  polAssigned >>

\* Lines 2276-2347 with #startDate on the page: the target is clamped, a
\* date input is assigned the target, any other input has it typed.
SetStartDate ==
  /\ polPc = "date"
  /\ startDateField # Absent
  /\ LET requested == IF policyInfo.startDate # NoDate
                      THEN policyInfo.startDate ELSE today
         targetDate == ClampStartDate(requested, startDateField.min,
                                      startDateField.max)
     IN  /\ polTarget' = targetDate
         /\ polAssigned' = IF startDateField.type = "date"
                           THEN targetDate ELSE NoDate
         /\ polWrites' = polWrites \cup {"#startDate"}
  /\ polPc' = "continue"
  /\ UNCHANGED << policyInfo, insuredPan, startDateField, today, polResult >>

\* Lines 2348-2420: without #startDate the step looks for another date
\* input when a date was supplied; nothing is assigned to #startDate.
NoStartDateField ==
  /\ polPc = "date"
  /\ startDateField = Absent
  /\ polPc' = "continue"
  /\ UNCHANGED << policyInfo, insuredPan, startDateField, today, polWrites,
                  polTarget, polAssigned, polResult >>

\* Lines 2421-2520: the #pg6btn click and the result.
PolicyContinue ==
  /\ polPc = "continue"
  /\ \E ok \in BOOLEAN : polResult' = PolicyResult(ok)
  /\ polPc' = "done"
  /\ UNCHANGED << policyInfo, insuredPan, startDateField, today, polWrites,
                  polTarget, polAssigned >>

IdlePolicy ==
  /\ policyInfo = [currentlyInsured |-> JsUndefined, priorCarrier |-> FALSE,
                   reasonNoInsurance |-> FALSE, startDate |-> NoDate]
  /\ insuredPan = "missing"
  /\ startDateField = Absent
  /\ today = NoDate
  /\ polWrites = {}
  /\ polTarget = NoDate
  /\ polAssigned = NoDate
  /\ polPc = "idle"
  /\ polResult = NoPolicyResult

(***************************************************************************)
(* handleVehicleUsageStep from the garaged panel on, and the garaging      *)
(* address dialog it opens.  usageLog lists the page operations that ran.  *)
(***************************************************************************)
GaragedValues == {Undefined, "", "0", "1"}

GaragingAddresses ==
  {Absent} \cup [zipCode : BOOLEAN, state : BOOLEAN, address : BOOLEAN]

\* Where the dialog fails: the wait for #garagingAddressPan, one of the
\* fields, the click of #GarZipBtn, or nowhere.
GaragingFailures ==
  {"none", "#garagingAddressPan", "#GaragingZipCode", "#GaragingState",
   "#GaragingAddress", "#GarZipBtn"}

\* The operations of the dialog in the order of lines 1920-1937, for the
\* fields the address has.
GaragingOps(addr) ==
  << "#garagingAddressPan" >>
  \o (IF addr.zipCode THEN << "#GaragingZipCode" >> ELSE << >>)
  \o (IF addr.state THEN << "#GaragingState" >> ELSE << >>)
  \o (IF addr.address THEN << "#GaragingAddress" >> ELSE << >>)
  \o << "#GarZipBtn" >>

\* The operations that ran when the one named failedAt throws: those before
\* it, and itself as the attempt.
RECURSIVE UpToFailure(_, _)
UpToFailure(ops, failedAt) ==
  IF ops = << >> THEN << >>
  ELSE IF Head(ops) = failedAt THEN << Head(ops) >>
  ELSE << Head(ops) >> \o UpToFailure(Tail(ops), failedAt)

InSeq(x, s) == \E k \in 1..Len(s) : s[k] = x

VARIABLES garaged, garagingAddress, garagedPan, garagingFailure, usageLog,
          garagingFailed, usageThrewAt, usagePc, usageResult

garagingVars ==
  << garaged, garagingAddress, garagedPan, garagingFailure, usageLog,
     garagingFailed, usageThrewAt, usagePc, usageResult >>

NoUsageResult == [none |-> TRUE]

UsageResult(ok) == [success |-> ok]

InitGaraging ==
  /\ garaged \in GaragedValues
  /\ garagingAddress \in GaragingAddresses
  /\ garagedPan \in BOOLEAN
  /\ garagingFailure \in GaragingFailures
  /\ usageLog = << >>
  /\ garagingFailed = FALSE
  /\ usageThrewAt = "none"
  /\ usagePc = "garaged"
  /\ usageResult = NoUsageResult

\* Lines 1864-1872: the garaged panel is probed and, visible with a garaged
\* value, #Garaged is selected; a select that throws ends the handler in its
\* catch.  Lines 1875-1877 decide whether the dialog is entered.
SelectGaraged ==
  /\ usagePc = "garaged"
  /\ IF garagedPan /\ Truthy(garaged)
     THEN \/ /\ usageLog' = Append(usageLog, "#Garaged")
             /\ usagePc' = IF garaged # "0" /\ garagingAddress # Absent
                           THEN "garaging" ELSE "length"
             /\ UNCHANGED << usageThrewAt, usageResult >>
          \/ /\ usageLog' = Append(usageLog, "#Garaged")
             /\ usageThrewAt' = "#Garaged"
             /\ usageResult' = UsageResult(FALSE)
             /\ usagePc' = "done"
     ELSE /\ usagePc' = "length"
          /\ UNCHANGED << usageLog, usageThrewAt, usageResult >>
  /\ UNCHANGED << garaged, garagingAddress, garagedPan, garagingFailure,
                  garagingFailed >>

\* A dialog whose failure reaches the catch of handleVehicleUsageStep.
HandleGaragingAddress_Rethrows ==
  /\ usagePc = "garaging"
  /\ LET ops == GaragingOps(garagingAddress)
     IN  /\ usageLog' = usageLog \o UpToFailure(ops, garagingFailure)
         /\ garagingFailed' = InSeq(garagingFailure, ops)
         /\ IF InSeq(garagingFailure, ops)
            THEN /\ usageResult' = UsageResult(FALSE)
                 /\ usagePc' = "done"
            ELSE /\ usagePc' = "length"
                 /\ UNCHANGED usageResult
  /\ UNCHANGED << garaged, garagingAddress, garagedPan, garagingFailure,
                  usageThrewAt >>

\* Lines 1917-1944: the dialog runs its operations up to the first that
\* throws; the catch logs a warning and the function returns either way.
HandleGaragingAddress ==
  /\ usagePc = "garaging"
  /\ LET ops == GaragingOps(garagingAddress)
     IN  /\ usageLog' = usageLog \o UpToFailure(ops, garagingFailure)
         /\ garagingFailed' = InSeq(garagingFailure, ops)
  /\ usagePc' = "length"
  /\ UNCHANGED << garaged, garagingAddress, garagedPan, garagingFailure,
                  usageThrewAt, usageResult >>

\* Lines 1880-1889: the length-of-ownership panel, hidden or selected; a
\* select that throws ends the handler in its catch.
SelectLengthOfOwnership ==
  /\ usagePc = "length"
  /\ \/ /\ usageLog' = Append(usageLog, "#vehLenOfOwnershipPan")
        /\ usagePc' = "continue"
        /\ UNCHANGED << usageThrewAt, usageResult >>
     \/ /\ usageLog' = Append(usageLog, "#vehLenOfOwnershipPan")
        /\ usageThrewAt' = "#vehLenOfOwnership"
        /\ usageResult' = UsageResult(FALSE)
        /\ usagePc' = "done"
  /\ UNCHANGED << garaged, garagingAddress, garagedPan, garagingFailure,
                  garagingFailed >>

\* Lines 1893-1902: the continue click and the success result; clickButton
\* throwing ends in the catch.
ClickUsageContinue ==
  /\ usagePc = "continue"
  /\ usageLog' = Append(usageLog, "#pg2btn")
  /\ \/ /\ usageResult' = UsageResult(TRUE)
        /\ UNCHANGED usageThrewAt
     \/ /\ usageResult' = UsageResult(FALSE)
        /\ usageThrewAt' = "#pg2btn"
  /\ usagePc' = "done"
  /\ UNCHANGED << garaged, garagingAddress, garagedPan, garagingFailure,
                  garagingFailed >>

IdleGaraging ==
  /\ garaged = Undefined
  /\ garagingAddress = Absent
  /\ garagedPan = FALSE
  /\ garagingFailure = "none"
  /\ usageLog = << >>
  /\ garagingFailed = FALSE
  /\ usageThrewAt = "none"
  /\ usagePc = "idle"
  /\ usageResult = NoUsageResult

(***************************************************************************)
(* handleCoverageOptionsStep with pkgSelect buttons on the page: the       *)
(* preference word is looked up in coverageMap, an object literal, and the *)
(* button of the package found is clicked.                                 *)
(***************************************************************************)
PackageIds == {"Basic", "Standard", "Optimal"}

\* The data-pkg values of the pkgSelect buttons, in document order.
CoverageOptionLists ==
  {s \in UNION {[1..n -> PackageIds] : n \in 1..3} :
     \A a, b \in 1..Len(s) : a # b => s[a] # s[b]}

\* driverData?.coveragePreference: not set, a word of the map, or another
\* word; "constructor" and "toString" are properties every object inherits.
PreferenceWords ==
  {Undefined, "Basic", "Standard", "Enhanced", "Premium", "Optimal",
   "premium", "Gold", "constructor", "toString"}

InheritedProperties == {"constructor", "toString"}

StringValue(s) == [kind |-> "string", s |-> s]

FunctionValue == [kind |-> "function"]

\* coverageMap[word]: the own property, else the one Object.prototype
\* gives, else undefined.
coverageMap(word) ==
  CASE word = "Basic"    -> StringValue("Basic")
    [] word = "Standard" -> StringValue("Standard")
    [] word = "Enhanced" -> StringValue("Standard")
    [] word = "Premium"  -> StringValue("Optimal")
    [] word = "Optimal"  -> StringValue("Optimal")
    [] word \in InheritedProperties -> FunctionValue
    [] OTHER -> JsUndefined

\* Line 2826, with the default parameter of line 2662 for undefined.
selectedCoverage(preference) ==
  LET word == IF preference = Undefined THEN "Standard" ELSE preference
      found == coverageMap(word)
  IN  IF found = JsUndefined THEN StringValue("Standard") ELSE found

\* coverageOptions.find(option => option.dataPkg === pkg): the position
\* of the first such option, 0 without one.
FindOption(opts, pkg) ==
  IF \E k \in 1..Len(opts) : StringValue(opts[k]) = pkg
  THEN CHOOSE k \in 1..Len(opts) :
         /\ StringValue(opts[k]) = pkg
         /\ \A j \in 1..(k - 1) : StringValue(opts[j]) # pkg
  ELSE 0

\* Lines 2829-2840: the data-pkg of targetOption.
targetOption(opts, preference) ==
  LET pkg == selectedCoverage(preference)
      direct == FindOption(opts, pkg)
      basic  == FindOption(opts, StringValue("Basic"))
  IN  IF direct # 0 THEN opts[direct]
      ELSE IF pkg = StringValue("Standard") /\ basic # 0
      THEN opts[basic]
      ELSE opts[1]

VARIABLES coveragePreference, coverageOptions, covClicked, covHasContinue,
          covPc

coverageVars ==
  << coveragePreference, coverageOptions, covClicked, covHasContinue, covPc >>

NoPackage == "<none>"

InitCoverage ==
  /\ coveragePreference \in PreferenceWords
  /\ coverageOptions \in CoverageOptionLists
  /\ covHasContinue \in BOOLEAN
  /\ covClicked = NoPackage
  /\ covPc = "select"

\* Lines 2817-2853: the button with the data-pkg of targetOption is
\* clicked.
ClickCoveragePackage ==
  /\ covPc = "select"
  /\ covClicked' = targetOption(coverageOptions, coveragePreference)
  /\ covPc' = "continue"
  /\ UNCHANGED << coveragePreference, coverageOptions, covHasContinue >>

\* Lines 2858-2872: #pg7btn is clicked when the page has it.
CoverageContinue ==
  /\ covPc = "continue"
  /\ covPc' = "done"
  /\ UNCHANGED << coveragePreference, coverageOptions, covClicked,
                  covHasContinue >>

IdleCoverage ==
  /\ coveragePreference = Undefined
  /\ coverageOptions = << >>
  /\ covHasContinue = FALSE
  /\ covClicked = NoPackage
  /\ covPc = "idle"

(***************************************************************************)
(* Overlapping requests.  Each call of submitCompleteForm is a session: it *)
(* constructs an automator, whose browser and page fields are null until   *)
(* initialize sets them, runs the stage handlers on this.page and closes   *)
(* this.browser in its finally block.  Every await is a point where the    *)
(* other session may run.  A browser is named by the number of the launch  *)
(* that made it, 0 is null.                                                *)
(***************************************************************************)
MaxSessions == 2

MaxHandlerCalls == 2

Sessions == 1..MaxSessions

NullRef == 0

VARIABLES sessPc, sessBrowser, sessPage, sessActedOn, sessCalls, launches,
          openBrowsers

sessionVars ==
  << sessPc, sessBrowser, sessPage, sessActedOn, sessCalls, launches,
     openBrowsers >>

InitSessions ==
  /\ sessPc = [r \in Sessions |-> "request"]
  /\ sessBrowser = [r \in Sessions |-> NullRef]
  /\ sessPage = [r \in Sessions |-> NullRef]
  /\ sessActedOn = [r \in Sessions |-> {}]
  /\ sessCalls = [r \in Sessions |-> 0]
  /\ launches = 0
  /\ openBrowsers = {}

\* automationController.js 108 and the constructor: a new automator with
\* browser and page null.
NewAutomator(r) ==
  /\ sessPc[r] = "request"
  /\ sessPc' = [sessPc EXCEPT ![r] = "launch"]
  /\ sessBrowser' = [sessBrowser EXCEPT ![r] = NullRef]
  /\ sessPage' = [sessPage EXCEPT ![r] = NullRef]
  /\ UNCHANGED << sessActedOn, sessCalls, launches, openBrowsers >>

\* A validation failure responds before initialize; the finally block still
\* runs.
ValidationRejects(r) ==
  /\ sessPc[r] = "launch"
  /\ sessPc' = [sessPc EXCEPT ![r] = "finally"]
  /\ UNCHANGED << sessBrowser, sessPage, sessActedOn, sessCalls, launches,
                  openBrowsers >>

\* Line 30: puppeteer.launch starts a browser of its own for this call and
\* this.browser is set to it.
LaunchBrowser(r) ==
  /\ sessPc[r] = "launch"
  /\ launches' = launches + 1
  /\ openBrowsers' = openBrowsers \cup {launches + 1}
  /\ sessBrowser' = [sessBrowser EXCEPT ![r] = launches + 1]
  /\ sessPc' = [sessPc EXCEPT ![r] = "newPage"]
  /\ UNCHANGED << sessPage, sessActedOn, sessCalls >>

\* Line 30 rejecting: initialize rethrows and the controller goes to its
\* catch and finally with this.browser still null.
LaunchFails(r) ==
  /\ sessPc[r] = "launch"
  /\ sessPc' = [sessPc EXCEPT ![r] = "finally"]
  /\ UNCHANGED << sessBrowser, sessPage, sessActedOn, sessCalls, launches,
                  openBrowsers >>

\* Line 31: this.page is a new page of this.browser; a page is named by the
\* browser it belongs to.
NewPage(r) ==
  /\ sessPc[r] = "newPage"
  /\ \/ /\ sessPage' = [sessPage EXCEPT ![r] = sessBrowser[r]]
        /\ sessPc' = [sessPc EXCEPT ![r] = "run"]
     \/ /\ sessPc' = [sessPc EXCEPT ![r] = "finally"]
        /\ UNCHANGED sessPage
  /\ UNCHANGED << sessBrowser, sessActedOn, sessCalls, launches,
                  openBrowsers >>

\* A stage handler of the run: every page operation goes through this.page.
StageHandlerActs(r) ==
  /\ sessPc[r] = "run"
  /\ sessCalls[r] < MaxHandlerCalls
  /\ sessCalls' = [sessCalls EXCEPT ![r] = @ + 1]
  /\ sessActedOn' = [sessActedOn EXCEPT ![r] = @ \cup {sessPage[r]}]
  /\ UNCHANGED << sessPc, sessBrowser, sessPage, launches, openBrowsers >>

\* fillMultiVehicleDriverForm returns or throws; the controller responds.
RunEnds(r) ==
  /\ sessPc[r] = "run"
  /\ sessPc' = [sessPc EXCEPT ![r] = "finally"]
  /\ UNCHANGED << sessBrowser, sessPage, sessActedOn, sessCalls, launches,
                  openBrowsers >>

\* A close that ends the browser launched last, as one held in a variable
\* of the module would be.
CloseSession_LatestBrowser(r) ==
  /\ sessPc[r] = "finally"
  /\ openBrowsers' = openBrowsers \ {launches}
  /\ sessPc' = [sessPc EXCEPT ![r] = "closed"]
  /\ UNCHANGED << sessBrowser, sessPage, sessActedOn, sessCalls, launches >>

\* automationController.js 255-257 and close(): this.browser is closed when
\* it is not null.
CloseSession(r) ==
  /\ sessPc[r] = "finally"
  /\ openBrowsers' = IF sessBrowser[r] # NullRef
                     THEN openBrowsers \ {sessBrowser[r]}
                     ELSE openBrowsers
  /\ sessPc' = [sessPc EXCEPT ![r] = "closed"]
  /\ UNCHANGED << sessBrowser, sessPage, sessActedOn, sessCalls, launches >>

\* One step of one of the overlapping requests.
SessionStep ==
  \E r \in Sessions :
    \/ NewAutomator(r)
    \/ ValidationRejects(r)
    \/ LaunchBrowser(r)
    \/ LaunchFails(r)
    \/ NewPage(r)
    \/ StageHandlerActs(r)
    \/ RunEnds(r)
    \/ CloseSession(r)

IdleSessions ==
  /\ sessPc = [r \in Sessions |-> "idle"]
  /\ sessBrowser = [r \in Sessions |-> NullRef]
  /\ sessPage = [r \in Sessions |-> NullRef]
  /\ sessActedOn = [r \in Sessions |-> {}]
  /\ sessCalls = [r \in Sessions |-> 0]
  /\ launches = 0
  /\ openBrowsers = {}

(***************************************************************************)
(* The control flow of one run, counted: the vehicle and driver loops of   *)
(* fillMultiVehicleDriverForm, the stage tests of handleConditionalSteps   *)
(* in the order they are written, and the coverage readiness loop after    *)
(* the policy step.  Every browser call returns or times out, so a step    *)
(* is one handler call with its outcome.                                   *)
(***************************************************************************)
maxAttempts == 5

\* The readiness check from which the coverage page has its buttons: the
\* first, the last, or none within the loop.
ReadyFromValues == {1, maxAttempts, maxAttempts + 1}

VARIABLES runPc, runVehicles, runDrivers, runI, vehicleIterations,
          driverIterations, readinessAttempts, coveragePageReady, readyFrom, runStage,
          dispatched

countVars ==
  << runPc, runVehicles, runDrivers, runI, vehicleIterations,
     driverIterations, readinessAttempts, coveragePageReady, readyFrom, runStage,
     dispatched >>

InitRunCount ==
  /\ runPc = "fillFirstStep"
  /\ runVehicles \in 0..MaxVehicles
  /\ runDrivers \in 0..MaxDrivers
  /\ runI = 0
  /\ vehicleIterations = 0
  /\ driverIterations = 0
  /\ readinessAttempts = 0
  /\ coveragePageReady = FALSE
  /\ readyFrom \in ReadyFromValues
  /\ runStage = 1
  /\ dispatched = [s \in Stages |-> 0]

RunUnchangedInputs == UNCHANGED << runVehicles, runDrivers, readyFrom >>

\* Lines 153-157: fillFirstStep; a failure is returned.
RunFillFirstStep ==
  /\ runPc = "fillFirstStep"
  /\ dispatched' = [dispatched EXCEPT !["PersonalInfo"] = @ + 1]
  /\ \E ok \in BOOLEAN : runPc' = IF ok THEN "vehicleLoop" ELSE "done"
  /\ RunUnchangedInputs
  /\ UNCHANGED << runI, vehicleIterations, driverIterations, readinessAttempts,
                  coveragePageReady, runStage >>

\* Lines 160-172: one iteration of the vehicle loop.  For the first
\* vehicle handleMultiVehicleStep dispatches the lookup or the usage
\* handler, or returns at once; a later vehicle goes to
\* addAdditionalVehicle.  A failure is returned.
RunVehicleIteration ==
  /\ runPc = "vehicleLoop"
  /\ runI < runVehicles
  /\ vehicleIterations' = vehicleIterations + 1
  /\ IF runI = 0
     THEN \E h \in {"VehicleLookup", "VehicleUsage", "none"} :
            dispatched' = IF h = "none" THEN dispatched
                          ELSE [dispatched EXCEPT ![h] = @ + 1]
     ELSE UNCHANGED dispatched
  /\ \E ok \in BOOLEAN :
       IF ok THEN runI' = runI + 1 /\ runPc' = runPc
       ELSE runI' = runI /\ runPc' = "done"
  /\ RunUnchangedInputs
  /\ UNCHANGED << driverIterations, readinessAttempts, coveragePageReady, runStage >>

\* Line 160: i < vehicles.length is false.
RunVehicleLoopExit ==
  /\ runPc = "vehicleLoop"
  /\ runI >= runVehicles
  /\ runPc' = "driverLoop"
  /\ runI' = 0
  /\ RunUnchangedInputs
  /\ UNCHANGED << vehicleIterations, driverIterations, readinessAttempts,
                  coveragePageReady, runStage, dispatched >>

\* Lines 175-192: one iteration of the driver loop; the first continues,
\* a later one calls handleMultiDriverStep and returns its failure.
RunDriverIteration ==
  /\ runPc = "driverLoop"
  /\ runI < runDrivers
  /\ driverIterations' = driverIterations + 1
  /\ IF runI = 0
     THEN runI' = runI + 1 /\ runPc' = runPc
     ELSE \E ok \in BOOLEAN :
            IF ok THEN runI' = runI + 1 /\ runPc' = runPc
            ELSE runI' = runI /\ runPc' = "done"
  /\ RunUnchangedInputs
  /\ UNCHANGED << vehicleIterations, readinessAttempts, coveragePageReady, runStage,
                  dispatched >>

\* Lines 175 and 194-203: the driver loop ends and handleConditionalSteps
\* is called, or building enhancedDriverData throws without a driver and
\* the catch returns.
RunDriverLoopExit ==
  /\ runPc = "driverLoop"
  /\ runI >= runDrivers
  /\ runPc' = IF runDrivers = 0 THEN "done" ELSE "stages"
  /\ runStage' = 2
  /\ RunUnchangedInputs
  /\ UNCHANGED << runI, vehicleIterations, driverIterations, readinessAttempts,
                  coveragePageReady, dispatched >>

\* Lines 638-842: the test of the stage at runStage.  A stage that is
\* detected has its handler called once; a failure is returned, a success
\* goes on to the next test, after the policy step by way of the readiness
\* loop.
RunStageTest ==
  /\ runPc = "stages"
  /\ runStage <= Len(StageOrder)
  /\ \E detected \in BOOLEAN, ok \in BOOLEAN :
       IF ~detected
       THEN /\ runStage' = runStage + 1
            /\ UNCHANGED << runPc, dispatched, readinessAttempts, coveragePageReady >>
       ELSE /\ dispatched' =
                 [dispatched EXCEPT ![StageOrder[runStage]] = @ + 1]
            /\ IF ~ok
               THEN /\ runPc' = "done"
                    /\ UNCHANGED << runStage, readinessAttempts, coveragePageReady >>
               ELSE IF StageOrder[runStage] = "PolicyInfo"
               THEN /\ runPc' = "readiness"
                    /\ readinessAttempts' = 0
                    /\ coveragePageReady' = FALSE
                    /\ UNCHANGED runStage
               ELSE /\ runStage' = runStage + 1
                    /\ UNCHANGED << runPc, readinessAttempts, coveragePageReady >>
  /\ RunUnchangedInputs
  /\ UNCHANGED << runI, vehicleIterations, driverIterations >>

\* A readiness loop whose test lets one more check through.
RunReadinessCheck_OffByOne ==
  /\ runPc = "readiness"
  /\ ~coveragePageReady
  /\ readinessAttempts <= maxAttempts
  /\ readinessAttempts' = readinessAttempts + 1
  /\ coveragePageReady' = (readinessAttempts + 1 >= readyFrom)
  /\ RunUnchangedInputs
  /\ UNCHANGED << runPc, runI, vehicleIterations, driverIterations, runStage,
                  dispatched >>

\* Lines 692-720: one pass of the while loop.
RunReadinessCheck ==
  /\ runPc = "readiness"
  /\ ~coveragePageReady
  /\ readinessAttempts < maxAttempts
  /\ readinessAttempts' = readinessAttempts + 1
  /\ coveragePageReady' = (readinessAttempts + 1 >= readyFrom)
  /\ RunUnchangedInputs
  /\ UNCHANGED << runPc, runI, vehicleIterations, driverIterations, runStage,
                  dispatched >>

\* Line 692: the loop condition is false.
RunReadinessExit ==
  /\ runPc = "readiness"
  /\ coveragePageReady \/ readinessAttempts >= maxAttempts
  /\ runPc' = "stages"
  /\ runStage' = runStage + 1
  /\ RunUnchangedInputs
  /\ UNCHANGED << runI, vehicleIterations, driverIterations, readinessAttempts,
                  coveragePageReady, dispatched >>

\* Lines 849-862: past the last test the final result is returned.
RunReturnsFinal ==
  /\ runPc = "stages"
  /\ runStage > Len(StageOrder)
  /\ runPc' = "done"
  /\ RunUnchangedInputs
  /\ UNCHANGED << runI, vehicleIterations, driverIterations, readinessAttempts,
                  coveragePageReady, runStage, dispatched >>

IdleRunCount ==
  /\ runPc = "idle"
  /\ runVehicles = 0
  /\ runDrivers = 0
  /\ runI = 0
  /\ vehicleIterations = 0
  /\ driverIterations = 0
  /\ readinessAttempts = 0
  /\ coveragePageReady = FALSE
  /\ readyFrom = 1
  /\ runStage = 1
  /\ dispatched = [s \in Stages |-> 0]

(***************************************************************************)
(* The additional records of a run: for every vehicle and every driver     *)
(* after the first, addAdditionalVehicle / addAdditionalDriver looks for   *)
(* an add control, clicks it and fills the details of the record into the  *)
(* fields it can match.  addEntered counts the records of which at least   *)
(* one field reached the form, the first included.                         *)
(***************************************************************************)
MaxRecords == 3

RecordKinds == {"vehicle", "driver"}

\* The detail fields fillAdditionalVehicleDetails and
\* fillAdditionalDriverDetails look for.
DetailFields(kind) ==
  IF kind = "vehicle" THEN {"year", "make", "model"}
  ELSE {"firstName", "lastName", "dateOfBirth"}

VARIABLES addKind, addSupplied, addIndex, addEntered, addLastStep, addPc,
          addRunResult

addVars ==
  << addKind, addSupplied, addIndex, addEntered, addLastStep, addPc,
     addRunResult >>

NoAddStep == [none |-> TRUE]

\* What one call of addAdditionalVehicle / addAdditionalDriver met and
\* returned.
AddStep(control, threw, matched, ok) ==
  [control |-> control, threw |-> threw, matched |-> matched,
   success |-> ok]

NoAddResult == [none |-> TRUE]

AddRunResult(ok) == [success |-> ok]

InitAdd ==
  /\ addKind \in RecordKinds
  /\ addSupplied \in 1..MaxRecords
  /\ addIndex = 1
  /\ addEntered = 1
  /\ addLastStep = NoAddStep
  /\ addPc = "loop"
  /\ addRunResult = NoAddResult

\* An add step for which a form without an add control is an error.
AddAdditionalRecord_MissingControlFails ==
  /\ addPc = "loop"
  /\ addIndex < addSupplied
  /\ addLastStep' = AddStep(FALSE, FALSE, {}, FALSE)
  /\ addPc' = "done"
  /\ addRunResult' = AddRunResult(FALSE)
  /\ UNCHANGED << addKind, addSupplied, addIndex, addEntered >>

\* Lines 266-319 / 322-375 with 378-499 / 502-630, and the loop of lines
\* 160-192 around them.  Without an add control the step returns success;
\* with one, the click or the filling may throw to the catch, which returns
\* a failure that ends the run; otherwise the details function returns
\* success whatever it matched.
AddAdditionalRecord ==
  /\ addPc = "loop"
  /\ addIndex < addSupplied
  /\ \E control \in BOOLEAN, threw \in BOOLEAN,
        matched \in SUBSET DetailFields(addKind) :
       /\ ~control => (~threw /\ matched = {})
       /\ threw => matched = {}
       /\ addLastStep' = AddStep(control, threw, matched, ~threw)
       /\ IF threw
          THEN /\ addPc' = "done"
               /\ addRunResult' = AddRunResult(FALSE)
               /\ UNCHANGED << addIndex, addEntered >>
          ELSE /\ addIndex' = addIndex + 1
               /\ addEntered' = IF matched # {} THEN addEntered + 1
                                ELSE addEntered
               /\ UNCHANGED << addPc, addRunResult >>
  /\ UNCHANGED << addKind, addSupplied >>

\* The loop is over; the remaining steps of the run succeed or fail.
AddLoopEnds ==
  /\ addPc = "loop"
  /\ addIndex >= addSupplied
  /\ addPc' = "done"
  /\ \E ok \in BOOLEAN : addRunResult' = AddRunResult(ok)
  /\ UNCHANGED << addKind, addSupplied, addIndex, addEntered, addLastStep >>

IdleAdd ==
  /\ addKind = "vehicle"
  /\ addSupplied = 1
  /\ addIndex = 1
  /\ addEntered = 1
  /\ addLastStep = NoAddStep
  /\ addPc = "idle"
  /\ addRunResult = NoAddResult

(***************************************************************************)
(* Specifications.  Spec is one run of fillMultiVehicleDriverForm, SpecCtl *)
(* one request to an endpoint of the controller, SpecSel one selection in  *)
(* a make or model dropdown.  Each leaves the other parts of the state     *)
(* alone.                                                                  *)
(***************************************************************************)
vars == << runVars, ctlVars, selVars, clickVars, typeVars, quoteVars, nameVars, panelVars, shapeVars, contVars, contactVars, selectVars, raceVars, detailsVars, dobVars, agreeVars, policyVars, garagingVars, coverageVars, sessionVars, countVars, addVars >>

IdleRun ==
  /\ pc = "idle"
  /\ stage = "none"
  /\ page = StartPage
  /\ currentUrl = StartPage.url
  /\ vehicles = 0
  /\ drivers = 0
  /\ i = 0
  /\ lastCall = NoCall
  /\ storedQuotes = NoQuotes
  /\ result = NoResult

IdleCtl ==
  /\ req = Absent
  /\ cpc = "idle"
  /\ browser = "null"
  /\ launched = FALSE
  /\ navigated = FALSE
  /\ responses = << >>
  /\ rejected = FALSE

IdleSel ==
  /\ options = << >>
  /\ wanted = ""
  /\ field = "none"
  /\ routine = "idle"
  /\ selectCalls = << >>
  /\ outcome = NoOutcome

IdleClick ==
  /\ selector = "none"
  /\ element = Absent
  /\ clickPc = "idle"
  /\ clickIndex = 0
  /\ clickLog = << >>
  /\ clickErrors = << >>
  /\ lastError = Undefined
  /\ clickOutcome = NoClickOutcome

Init ==
  /\ InitRun
  /\ IdleCtl
  /\ IdleSel
  /\ IdleClick
  /\ IdleType
  /\ IdleQuote
  /\ IdleNames
  /\ IdlePanels
  /\ IdleShape
  /\ IdleCont
  /\ IdleContact
  /\ IdleSelect
  /\ IdleRace
  /\ IdleDetails
  /\ IdleDob
  /\ IdleAgree
  /\ IdlePolicy
  /\ IdleGaraging
  /\ IdleCoverage
  /\ IdleSessions
  /\ IdleRunCount
  /\ IdleAdd

Next ==
  \/ FillFirstStep
       /\ UNCHANGED << ctlVars, selVars, clickVars, typeVars, quoteVars, nameVars, panelVars, shapeVars, contVars, contactVars, selectVars, raceVars, detailsVars, dobVars, agreeVars, policyVars, garagingVars, coverageVars, sessionVars, countVars, addVars >>
  \/ VehicleLoopExit
       /\ UNCHANGED << ctlVars, selVars, clickVars, typeVars, quoteVars, nameVars, panelVars, shapeVars, contVars, contactVars, selectVars, raceVars, detailsVars, dobVars, agreeVars, policyVars, garagingVars, coverageVars, sessionVars, countVars, addVars >>
  \/ HandleMultiVehicleStepFirst
       /\ UNCHANGED << ctlVars, selVars, clickVars, typeVars, quoteVars, nameVars, panelVars, shapeVars, contVars, contactVars, selectVars, raceVars, detailsVars, dobVars, agreeVars, policyVars, garagingVars, coverageVars, sessionVars, countVars, addVars >>
  \/ HandleMultiReturn
       /\ UNCHANGED << ctlVars, selVars, clickVars, typeVars, quoteVars, nameVars, panelVars, shapeVars, contVars, contactVars, selectVars, raceVars, detailsVars, dobVars, agreeVars, policyVars, garagingVars, coverageVars, sessionVars, countVars, addVars >>
  \/ AddAdditionalVehicle
       /\ UNCHANGED << ctlVars, selVars, clickVars, typeVars, quoteVars, nameVars, panelVars, shapeVars, contVars, contactVars, selectVars, raceVars, detailsVars, dobVars, agreeVars, policyVars, garagingVars, coverageVars, sessionVars, countVars, addVars >>
  \/ DriverLoopSkipPrimary
       /\ UNCHANGED << ctlVars, selVars, clickVars, typeVars, quoteVars, nameVars, panelVars, shapeVars, contVars, contactVars, selectVars, raceVars, detailsVars, dobVars, agreeVars, policyVars, garagingVars, coverageVars, sessionVars, countVars, addVars >>
  \/ AddAdditionalDriver
       /\ UNCHANGED << ctlVars, selVars, clickVars, typeVars, quoteVars, nameVars, panelVars, shapeVars, contVars, contactVars, selectVars, raceVars, detailsVars, dobVars, agreeVars, policyVars, garagingVars, coverageVars, sessionVars, countVars, addVars >>
  \/ StartConditionalSteps
       /\ UNCHANGED << ctlVars, selVars, clickVars, typeVars, quoteVars, nameVars, panelVars, shapeVars, contVars, contactVars, selectVars, raceVars, detailsVars, dobVars, agreeVars, policyVars, garagingVars, coverageVars, sessionVars, countVars, addVars >>
  \/ DetectStage
       /\ UNCHANGED << ctlVars, selVars, clickVars, typeVars, quoteVars, nameVars, panelVars, shapeVars, contVars, contactVars, selectVars, raceVars, detailsVars, dobVars, agreeVars, policyVars, garagingVars, coverageVars, sessionVars, countVars, addVars >>
  \/ HandlerReturn
       /\ UNCHANGED << ctlVars, selVars, clickVars, typeVars, quoteVars, nameVars, panelVars, shapeVars, contVars, contactVars, selectVars, raceVars, detailsVars, dobVars, agreeVars, policyVars, garagingVars, coverageVars, sessionVars, countVars, addVars >>
  \/ WaitForQuoteResults
       /\ UNCHANGED << ctlVars, selVars, clickVars, typeVars, quoteVars, nameVars, panelVars, shapeVars, contVars, contactVars, selectVars, raceVars, detailsVars, dobVars, agreeVars, policyVars, garagingVars, coverageVars, sessionVars, countVars, addVars >>
  \/ QuoteResultsReturn
       /\ UNCHANGED << ctlVars, selVars, clickVars, typeVars, quoteVars, nameVars, panelVars, shapeVars, contVars, contactVars, selectVars, raceVars, detailsVars, dobVars, agreeVars, policyVars, garagingVars, coverageVars, sessionVars, countVars, addVars >>
  \/ ReturnFinal
       /\ UNCHANGED << ctlVars, selVars, clickVars, typeVars, quoteVars, nameVars, panelVars, shapeVars, contVars, contactVars, selectVars, raceVars, detailsVars, dobVars, agreeVars, policyVars, garagingVars, coverageVars, sessionVars, countVars, addVars >>

Spec == Init /\ [][Next]_vars

InitC ==
  /\ InitCtl
  /\ IdleRun
  /\ IdleSel
  /\ IdleClick
  /\ IdleType
  /\ IdleQuote
  /\ IdleNames
  /\ IdlePanels
  /\ IdleShape
  /\ IdleCont
  /\ IdleContact
  /\ IdleSelect
  /\ IdleRace
  /\ IdleDetails
  /\ IdleDob
  /\ IdleAgree
  /\ IdlePolicy
  /\ IdleGaraging
  /\ IdleCoverage
  /\ IdleSessions
  /\ IdleRunCount
  /\ IdleAdd

NextC ==
  \/ Validate
       /\ UNCHANGED << runVars, selVars, clickVars, typeVars, quoteVars, nameVars, panelVars, shapeVars, contVars, contactVars, selectVars, raceVars, detailsVars, dobVars, agreeVars, policyVars, garagingVars, coverageVars, sessionVars, countVars, addVars >>
  \/ InitializeOk
       /\ UNCHANGED << runVars, selVars, clickVars, typeVars, quoteVars, nameVars, panelVars, shapeVars, contVars, contactVars, selectVars, raceVars, detailsVars, dobVars, agreeVars, policyVars, garagingVars, coverageVars, sessionVars, countVars, addVars >>
  \/ InitializeThrows
       /\ UNCHANGED << runVars, selVars, clickVars, typeVars, quoteVars, nameVars, panelVars, shapeVars, contVars, contactVars, selectVars, raceVars, detailsVars, dobVars, agreeVars, policyVars, garagingVars, coverageVars, sessionVars, countVars, addVars >>
  \/ RunReturns
       /\ UNCHANGED << runVars, selVars, clickVars, typeVars, quoteVars, nameVars, panelVars, shapeVars, contVars, contactVars, selectVars, raceVars, detailsVars, dobVars, agreeVars, policyVars, garagingVars, coverageVars, sessionVars, countVars, addVars >>
  \/ DebugFill
       /\ UNCHANGED << runVars, selVars, clickVars, typeVars, quoteVars, nameVars, panelVars, shapeVars, contVars, contactVars, selectVars, raceVars, detailsVars, dobVars, agreeVars, policyVars, garagingVars, coverageVars, sessionVars, countVars, addVars >>
  \/ Catch /\ UNCHANGED << runVars, selVars, clickVars, typeVars, quoteVars, nameVars, panelVars, shapeVars, contVars, contactVars, selectVars, raceVars, detailsVars, dobVars, agreeVars, policyVars, garagingVars, coverageVars, sessionVars, countVars, addVars >>
  \/ Finally
       /\ UNCHANGED << runVars, selVars, clickVars, typeVars, quoteVars, nameVars, panelVars, shapeVars, contVars, contactVars, selectVars, raceVars, detailsVars, dobVars, agreeVars, policyVars, garagingVars, coverageVars, sessionVars, countVars, addVars >>

SpecCtl == InitC /\ [][NextC]_vars

InitS ==
  /\ InitSel
  /\ IdleRun
  /\ IdleCtl
  /\ IdleClick
  /\ IdleType
  /\ IdleQuote
  /\ IdleNames
  /\ IdlePanels
  /\ IdleShape
  /\ IdleCont
  /\ IdleContact
  /\ IdleSelect
  /\ IdleRace
  /\ IdleDetails
  /\ IdleDob
  /\ IdleAgree
  /\ IdlePolicy
  /\ IdleGaraging
  /\ IdleCoverage
  /\ IdleSessions
  /\ IdleRunCount
  /\ IdleAdd

NextS ==
  \/ HandleVehicleDetailsForm
       /\ UNCHANGED << runVars, ctlVars, clickVars, typeVars, quoteVars, nameVars, panelVars, shapeVars, contVars, contactVars, selectVars, raceVars, detailsVars, dobVars, agreeVars, policyVars, garagingVars, coverageVars, sessionVars, countVars, addVars >>
  \/ FillAdditionalVehicleDetails
       /\ UNCHANGED << runVars, ctlVars, clickVars, typeVars, quoteVars, nameVars, panelVars, shapeVars, contVars, contactVars, selectVars, raceVars, detailsVars, dobVars, agreeVars, policyVars, garagingVars, coverageVars, sessionVars, countVars, addVars >>

SpecSel == InitS /\ [][NextS]_vars

InitK ==
  /\ InitClick
  /\ IdleRun
  /\ IdleCtl
  /\ IdleSel
  /\ IdleType
  /\ IdleQuote
  /\ IdleNames
  /\ IdlePanels
  /\ IdleShape
  /\ IdleCont
  /\ IdleContact
  /\ IdleSelect
  /\ IdleRace
  /\ IdleDetails
  /\ IdleDob
  /\ IdleAgree
  /\ IdlePolicy
  /\ IdleGaraging
  /\ IdleCoverage
  /\ IdleSessions
  /\ IdleRunCount
  /\ IdleAdd

NextK ==
  \/ ProbeElement
       /\ UNCHANGED << runVars, ctlVars, selVars, typeVars, quoteVars, nameVars, panelVars, shapeVars, contVars, contactVars, selectVars, raceVars, detailsVars, dobVars, agreeVars, policyVars, garagingVars, coverageVars, sessionVars, countVars, addVars >>
  \/ ScrollIntoView
       /\ UNCHANGED << runVars, ctlVars, selVars, typeVars, quoteVars, nameVars, panelVars, shapeVars, contVars, contactVars, selectVars, raceVars, detailsVars, dobVars, agreeVars, policyVars, garagingVars, coverageVars, sessionVars, countVars, addVars >>
  \/ ClickMethodSucceeds
       /\ UNCHANGED << runVars, ctlVars, selVars, typeVars, quoteVars, nameVars, panelVars, shapeVars, contVars, contactVars, selectVars, raceVars, detailsVars, dobVars, agreeVars, policyVars, garagingVars, coverageVars, sessionVars, countVars, addVars >>
  \/ ClickMethodFails
       /\ UNCHANGED << runVars, ctlVars, selVars, typeVars, quoteVars, nameVars, panelVars, shapeVars, contVars, contactVars, selectVars, raceVars, detailsVars, dobVars, agreeVars, policyVars, garagingVars, coverageVars, sessionVars, countVars, addVars >>
  \/ AllClickMethodsFailed
       /\ UNCHANGED << runVars, ctlVars, selVars, typeVars, quoteVars, nameVars, panelVars, shapeVars, contVars, contactVars, selectVars, raceVars, detailsVars, dobVars, agreeVars, policyVars, garagingVars, coverageVars, sessionVars, countVars, addVars >>

SpecClick == InitK /\ [][NextK]_vars

InitT ==
  /\ InitType
  /\ IdleRun
  /\ IdleCtl
  /\ IdleSel
  /\ IdleClick
  /\ IdleQuote
  /\ IdleNames
  /\ IdlePanels
  /\ IdleShape
  /\ IdleCont
  /\ IdleContact
  /\ IdleSelect
  /\ IdleRace
  /\ IdleDetails
  /\ IdleDob
  /\ IdleAgree
  /\ IdlePolicy
  /\ IdleGaraging
  /\ IdleCoverage
  /\ IdleSessions
  /\ IdleRunCount
  /\ IdleAdd

NextT ==
  \/ ClearAndTypeMissing
       /\ UNCHANGED << runVars, ctlVars, selVars, clickVars, quoteVars, nameVars, panelVars, shapeVars, contVars, contactVars, selectVars, raceVars, detailsVars, dobVars, agreeVars, policyVars, garagingVars, coverageVars, sessionVars, countVars, addVars >>
  \/ ClearAndTypeThrows
       /\ UNCHANGED << runVars, ctlVars, selVars, clickVars, quoteVars, nameVars, panelVars, shapeVars, contVars, contactVars, selectVars, raceVars, detailsVars, dobVars, agreeVars, policyVars, garagingVars, coverageVars, sessionVars, countVars, addVars >>
  \/ ClearAndTypeCompletes
       /\ UNCHANGED << runVars, ctlVars, selVars, clickVars, quoteVars, nameVars, panelVars, shapeVars, contVars, contactVars, selectVars, raceVars, detailsVars, dobVars, agreeVars, policyVars, garagingVars, coverageVars, sessionVars, countVars, addVars >>

SpecType == InitT /\ [][NextT]_vars

InitQ ==
  /\ InitQuote
  /\ IdleRun
  /\ IdleCtl
  /\ IdleSel
  /\ IdleClick
  /\ IdleType
  /\ IdleNames
  /\ IdlePanels
  /\ IdleShape
  /\ IdleCont
  /\ IdleContact
  /\ IdleSelect
  /\ IdleRace
  /\ IdleDetails
  /\ IdleDob
  /\ IdleAgree
  /\ IdlePolicy
  /\ IdleGaraging
  /\ IdleCoverage
  /\ IdleSessions
  /\ IdleRunCount
  /\ IdleAdd

NextQ ==
  \/ WaitForResultsPage
       /\ UNCHANGED << runVars, ctlVars, selVars, clickVars, typeVars, nameVars, panelVars, shapeVars, contVars, contactVars, selectVars, raceVars, detailsVars, dobVars, agreeVars, policyVars, garagingVars, coverageVars, sessionVars, countVars, addVars >>
  \/ WaitForPgResults
       /\ UNCHANGED << runVars, ctlVars, selVars, clickVars, typeVars, nameVars, panelVars, shapeVars, contVars, contactVars, selectVars, raceVars, detailsVars, dobVars, agreeVars, policyVars, garagingVars, coverageVars, sessionVars, countVars, addVars >>
  \/ WaitForPricedPanel
       /\ UNCHANGED << runVars, ctlVars, selVars, clickVars, typeVars, nameVars, panelVars, shapeVars, contVars, contactVars, selectVars, raceVars, detailsVars, dobVars, agreeVars, policyVars, garagingVars, coverageVars, sessionVars, countVars, addVars >>
  \/ ExtractInHandler
       /\ UNCHANGED << runVars, ctlVars, selVars, clickVars, typeVars, nameVars, panelVars, shapeVars, contVars, contactVars, selectVars, raceVars, detailsVars, dobVars, agreeVars, policyVars, garagingVars, coverageVars, sessionVars, countVars, addVars >>
  \/ ExtractFallback
       /\ UNCHANGED << runVars, ctlVars, selVars, clickVars, typeVars, nameVars, panelVars, shapeVars, contVars, contactVars, selectVars, raceVars, detailsVars, dobVars, agreeVars, policyVars, garagingVars, coverageVars, sessionVars, countVars, addVars >>

SpecQuote == InitQ /\ [][NextQ]_vars

InitN ==
  /\ IdleRun
  /\ IdleCtl
  /\ IdleSel
  /\ IdleClick
  /\ IdleType
  /\ IdleQuote
  /\ InitNames
  /\ IdlePanels
  /\ IdleShape
  /\ IdleCont
  /\ IdleContact
  /\ IdleSelect
  /\ IdleRace
  /\ IdleDetails
  /\ IdleDob
  /\ IdleAgree
  /\ IdlePolicy
  /\ IdleGaraging
  /\ IdleCoverage
  /\ IdleSessions
  /\ IdleRunCount
  /\ IdleAdd

NextN ==
  \/ FillFormFieldsNames
       /\ UNCHANGED << runVars, ctlVars, selVars, clickVars, typeVars, quoteVars, panelVars, shapeVars, contVars, contactVars, selectVars, raceVars, detailsVars, dobVars, agreeVars, policyVars, garagingVars, coverageVars, sessionVars, countVars, addVars >>
  \/ DriverInfoNotDetected
       /\ UNCHANGED << runVars, ctlVars, selVars, clickVars, typeVars, quoteVars, panelVars, shapeVars, contVars, contactVars, selectVars, raceVars, detailsVars, dobVars, agreeVars, policyVars, garagingVars, coverageVars, sessionVars, countVars, addVars >>
  \/ HandleDriverInformationStep
       /\ UNCHANGED << runVars, ctlVars, selVars, clickVars, typeVars, quoteVars, panelVars, shapeVars, contVars, contactVars, selectVars, raceVars, detailsVars, dobVars, agreeVars, policyVars, garagingVars, coverageVars, sessionVars, countVars, addVars >>

SpecNames == InitN /\ [][NextN]_vars

InitP ==
  /\ IdleRun
  /\ IdleCtl
  /\ IdleSel
  /\ IdleClick
  /\ IdleType
  /\ IdleQuote
  /\ IdleNames
  /\ InitPanels
  /\ IdleShape
  /\ IdleCont
  /\ IdleContact
  /\ IdleSelect
  /\ IdleRace
  /\ IdleDetails
  /\ IdleDob
  /\ IdleAgree
  /\ IdlePolicy
  /\ IdleGaraging
  /\ IdleCoverage
  /\ IdleSessions
  /\ IdleRunCount
  /\ IdleAdd

NextP ==
  \/ ProbeAndSelect
       /\ UNCHANGED << runVars, ctlVars, selVars, clickVars, typeVars, quoteVars, nameVars, shapeVars, contVars, contactVars, selectVars, raceVars, detailsVars, dobVars, agreeVars, policyVars, garagingVars, coverageVars, sessionVars, countVars, addVars >>
  \/ SelectThrows
       /\ UNCHANGED << runVars, ctlVars, selVars, clickVars, typeVars, quoteVars, nameVars, shapeVars, contVars, contactVars, selectVars, raceVars, detailsVars, dobVars, agreeVars, policyVars, garagingVars, coverageVars, sessionVars, countVars, addVars >>
  \/ PanelsDone
       /\ UNCHANGED << runVars, ctlVars, selVars, clickVars, typeVars, quoteVars, nameVars, shapeVars, contVars, contactVars, selectVars, raceVars, detailsVars, dobVars, agreeVars, policyVars, garagingVars, coverageVars, sessionVars, countVars, addVars >>

SpecPanels == InitP /\ [][NextP]_vars

InitH ==
  /\ IdleRun
  /\ IdleCtl
  /\ IdleSel
  /\ IdleClick
  /\ IdleType
  /\ IdleQuote
  /\ IdleNames
  /\ IdlePanels
  /\ InitShape
  /\ IdleCont
  /\ IdleContact
  /\ IdleSelect
  /\ IdleRace
  /\ IdleDetails
  /\ IdleDob
  /\ IdleAgree
  /\ IdlePolicy
  /\ IdleGaraging
  /\ IdleCoverage
  /\ IdleSessions
  /\ IdleRunCount
  /\ IdleAdd

NextH ==
  \/ ValidateLists
       /\ UNCHANGED << runVars, ctlVars, selVars, clickVars, typeVars, quoteVars, nameVars, panelVars, contVars, contactVars, selectVars, raceVars, detailsVars, dobVars, agreeVars, policyVars, garagingVars, coverageVars, sessionVars, countVars, addVars >>
  \/ CallCore
       /\ UNCHANGED << runVars, ctlVars, selVars, clickVars, typeVars, quoteVars, nameVars, panelVars, contVars, contactVars, selectVars, raceVars, detailsVars, dobVars, agreeVars, policyVars, garagingVars, coverageVars, sessionVars, countVars, addVars >>

SpecShape == InitH /\ [][NextH]_vars

InitO ==
  /\ IdleRun
  /\ IdleCtl
  /\ IdleSel
  /\ IdleClick
  /\ IdleType
  /\ IdleQuote
  /\ IdleNames
  /\ IdlePanels
  /\ IdleShape
  /\ InitCont
  /\ IdleContact
  /\ IdleSelect
  /\ IdleRace
  /\ IdleDetails
  /\ IdleDob
  /\ IdleAgree
  /\ IdlePolicy
  /\ IdleGaraging
  /\ IdleCoverage
  /\ IdleSessions
  /\ IdleRunCount
  /\ IdleAdd

NextO ==
  \/ AnalyzeAddressValidation
       /\ UNCHANGED << runVars, ctlVars, selVars, clickVars, typeVars, quoteVars, nameVars, panelVars, shapeVars, contactVars, selectVars, raceVars, detailsVars, dobVars, agreeVars, policyVars, garagingVars, coverageVars, sessionVars, countVars, addVars >>
  \/ HandleCoverageOptionsStep
       /\ UNCHANGED << runVars, ctlVars, selVars, clickVars, typeVars, quoteVars, nameVars, panelVars, shapeVars, contactVars, selectVars, raceVars, detailsVars, dobVars, agreeVars, policyVars, garagingVars, coverageVars, sessionVars, countVars, addVars >>
  \/ HandleVehicleUsageContinue
       /\ UNCHANGED << runVars, ctlVars, selVars, clickVars, typeVars, quoteVars, nameVars, panelVars, shapeVars, contactVars, selectVars, raceVars, detailsVars, dobVars, agreeVars, policyVars, garagingVars, coverageVars, sessionVars, countVars, addVars >>

SpecCont == InitO /\ [][NextO]_vars

InitM ==
  /\ IdleRun
  /\ IdleCtl
  /\ IdleSel
  /\ IdleClick
  /\ IdleType
  /\ IdleQuote
  /\ IdleNames
  /\ IdlePanels
  /\ IdleShape
  /\ IdleCont
  /\ InitContact
  /\ IdleSelect
  /\ IdleRace
  /\ IdleDetails
  /\ IdleDob
  /\ IdleAgree
  /\ IdlePolicy
  /\ IdleGaraging
  /\ IdleCoverage
  /\ IdleSessions
  /\ IdleRunCount
  /\ IdleAdd

NextM ==
  \/ HandleContactMethodStep
       /\ UNCHANGED << runVars, ctlVars, selVars, clickVars, typeVars, quoteVars, nameVars, panelVars, shapeVars, contVars, selectVars, raceVars, detailsVars, dobVars, agreeVars, policyVars, garagingVars, coverageVars, sessionVars, countVars, addVars >>
  \/ ContactMethodThrows
       /\ UNCHANGED << runVars, ctlVars, selVars, clickVars, typeVars, quoteVars, nameVars, panelVars, shapeVars, contVars, selectVars, raceVars, detailsVars, dobVars, agreeVars, policyVars, garagingVars, coverageVars, sessionVars, countVars, addVars >>

SpecContact == InitM /\ [][NextM]_vars

InitL ==
  /\ IdleRun
  /\ IdleCtl
  /\ IdleSel
  /\ IdleClick
  /\ IdleType
  /\ IdleQuote
  /\ IdleNames
  /\ IdlePanels
  /\ IdleShape
  /\ IdleCont
  /\ IdleContact
  /\ InitSelect
  /\ IdleRace
  /\ IdleDetails
  /\ IdleDob
  /\ IdleAgree
  /\ IdlePolicy
  /\ IdleGaraging
  /\ IdleCoverage
  /\ IdleSessions
  /\ IdleRunCount
  /\ IdleAdd

NextL ==
  \/ SelectQuote
       /\ UNCHANGED << runVars, ctlVars, selVars, clickVars, typeVars, quoteVars, nameVars, panelVars, shapeVars, contVars, contactVars, raceVars, detailsVars, dobVars, agreeVars, policyVars, garagingVars, coverageVars, sessionVars, countVars, addVars >>
  \/ QuoteStepReturns
       /\ UNCHANGED << runVars, ctlVars, selVars, clickVars, typeVars, quoteVars, nameVars, panelVars, shapeVars, contVars, contactVars, raceVars, detailsVars, dobVars, agreeVars, policyVars, garagingVars, coverageVars, sessionVars, countVars, addVars >>

SpecSelect == InitL /\ [][NextL]_vars

InitR ==
  /\ IdleRun
  /\ IdleCtl
  /\ IdleSel
  /\ IdleClick
  /\ IdleType
  /\ IdleQuote
  /\ IdleNames
  /\ IdlePanels
  /\ IdleShape
  /\ IdleCont
  /\ IdleContact
  /\ IdleSelect
  /\ InitRace
  /\ IdleDetails
  /\ IdleDob
  /\ IdleAgree
  /\ IdlePolicy
  /\ IdleGaraging
  /\ IdleCoverage
  /\ IdleSessions
  /\ IdleRunCount
  /\ IdleAdd

NextR ==
  \/ ElementAppears
       /\ UNCHANGED << runVars, ctlVars, selVars, clickVars, typeVars, quoteVars, nameVars, panelVars, shapeVars, contVars, contactVars, selectVars, detailsVars, dobVars, agreeVars, policyVars, garagingVars, coverageVars, sessionVars, countVars, addVars >>
  \/ ProbeResolves
       /\ UNCHANGED << runVars, ctlVars, selVars, clickVars, typeVars, quoteVars, nameVars, panelVars, shapeVars, contVars, contactVars, selectVars, detailsVars, dobVars, agreeVars, policyVars, garagingVars, coverageVars, sessionVars, countVars, addVars >>
  \/ ProbeRejects
       /\ UNCHANGED << runVars, ctlVars, selVars, clickVars, typeVars, quoteVars, nameVars, panelVars, shapeVars, contVars, contactVars, selectVars, detailsVars, dobVars, agreeVars, policyVars, garagingVars, coverageVars, sessionVars, countVars, addVars >>

SpecRace == InitR /\ [][NextR]_vars

InitD ==
  /\ IdleRun
  /\ IdleCtl
  /\ IdleSel
  /\ IdleClick
  /\ IdleType
  /\ IdleQuote
  /\ IdleNames
  /\ IdlePanels
  /\ IdleShape
  /\ IdleCont
  /\ IdleContact
  /\ IdleSelect
  /\ IdleRace
  /\ InitDetails
  /\ IdleDob
  /\ IdleAgree
  /\ IdlePolicy
  /\ IdleGaraging
  /\ IdleCoverage
  /\ IdleSessions
  /\ IdleRunCount
  /\ IdleAdd

NextD ==
  \/ SelectYear
       /\ UNCHANGED << runVars, ctlVars, selVars, clickVars, typeVars, quoteVars, nameVars, panelVars, shapeVars, contVars, contactVars, selectVars, raceVars, dobVars, agreeVars, policyVars, garagingVars, coverageVars, sessionVars, countVars, addVars >>
  \/ MatchMake
       /\ UNCHANGED << runVars, ctlVars, selVars, clickVars, typeVars, quoteVars, nameVars, panelVars, shapeVars, contVars, contactVars, selectVars, raceVars, dobVars, agreeVars, policyVars, garagingVars, coverageVars, sessionVars, countVars, addVars >>
  \/ MatchModel
       /\ UNCHANGED << runVars, ctlVars, selVars, clickVars, typeVars, quoteVars, nameVars, panelVars, shapeVars, contVars, contactVars, selectVars, raceVars, dobVars, agreeVars, policyVars, garagingVars, coverageVars, sessionVars, countVars, addVars >>
  \/ WaitForContinueButton
       /\ UNCHANGED << runVars, ctlVars, selVars, clickVars, typeVars, quoteVars, nameVars, panelVars, shapeVars, contVars, contactVars, selectVars, raceVars, dobVars, agreeVars, policyVars, garagingVars, coverageVars, sessionVars, countVars, addVars >>
  \/ ClickContinue
       /\ UNCHANGED << runVars, ctlVars, selVars, clickVars, typeVars, quoteVars, nameVars, panelVars, shapeVars, contVars, contactVars, selectVars, raceVars, dobVars, agreeVars, policyVars, garagingVars, coverageVars, sessionVars, countVars, addVars >>

SpecDetails == InitD /\ [][NextD]_vars

InitB ==
  /\ IdleRun
  /\ IdleCtl
  /\ IdleSel
  /\ IdleClick
  /\ IdleType
  /\ IdleQuote
  /\ IdleNames
  /\ IdlePanels
  /\ IdleShape
  /\ IdleCont
  /\ IdleContact
  /\ IdleSelect
  /\ IdleRace
  /\ IdleDetails
  /\ InitDob
  /\ IdleAgree
  /\ IdlePolicy
  /\ IdleGaraging
  /\ IdleCoverage
  /\ IdleSessions
  /\ IdleRunCount
  /\ IdleAdd

NextB ==
  \/ BeginDob
       /\ UNCHANGED << runVars, ctlVars, selVars, clickVars, typeVars, quoteVars, nameVars, panelVars, shapeVars, contVars, contactVars, selectVars, raceVars, detailsVars, agreeVars, policyVars, garagingVars, coverageVars, sessionVars, countVars, addVars >>
  \/ IsoAssign
       /\ UNCHANGED << runVars, ctlVars, selVars, clickVars, typeVars, quoteVars, nameVars, panelVars, shapeVars, contVars, contactVars, selectVars, raceVars, detailsVars, agreeVars, policyVars, garagingVars, coverageVars, sessionVars, countVars, addVars >>
  \/ LocaleAssign
       /\ UNCHANGED << runVars, ctlVars, selVars, clickVars, typeVars, quoteVars, nameVars, panelVars, shapeVars, contVars, contactVars, selectVars, raceVars, detailsVars, agreeVars, policyVars, garagingVars, coverageVars, sessionVars, countVars, addVars >>
  \/ TypeChars
       /\ UNCHANGED << runVars, ctlVars, selVars, clickVars, typeVars, quoteVars, nameVars, panelVars, shapeVars, contVars, contactVars, selectVars, raceVars, detailsVars, agreeVars, policyVars, garagingVars, coverageVars, sessionVars, countVars, addVars >>
  \/ VerifyDob
       /\ UNCHANGED << runVars, ctlVars, selVars, clickVars, typeVars, quoteVars, nameVars, panelVars, shapeVars, contVars, contactVars, selectVars, raceVars, detailsVars, agreeVars, policyVars, garagingVars, coverageVars, sessionVars, countVars, addVars >>
  \/ FillRemainingFields
       /\ UNCHANGED << runVars, ctlVars, selVars, clickVars, typeVars, quoteVars, nameVars, panelVars, shapeVars, contVars, contactVars, selectVars, raceVars, detailsVars, agreeVars, policyVars, garagingVars, coverageVars, sessionVars, countVars, addVars >>
  \/ ClickDriverContinue
       /\ UNCHANGED << runVars, ctlVars, selVars, clickVars, typeVars, quoteVars, nameVars, panelVars, shapeVars, contVars, contactVars, selectVars, raceVars, detailsVars, agreeVars, policyVars, garagingVars, coverageVars, sessionVars, countVars, addVars >>

SpecDob == InitB /\ [][NextB]_vars

InitA ==
  /\ IdleRun
  /\ IdleCtl
  /\ IdleSel
  /\ IdleClick
  /\ IdleType
  /\ IdleQuote
  /\ IdleNames
  /\ IdlePanels
  /\ IdleShape
  /\ IdleCont
  /\ IdleContact
  /\ IdleSelect
  /\ IdleRace
  /\ IdleDetails
  /\ IdleDob
  /\ InitAgree
  /\ IdlePolicy
  /\ IdleGaraging
  /\ IdleCoverage
  /\ IdleSessions
  /\ IdleRunCount
  /\ IdleAdd

NextA ==
  \/ HandleAgreementCheckbox
       /\ UNCHANGED << runVars, ctlVars, selVars, clickVars, typeVars, quoteVars, nameVars, panelVars, shapeVars, contVars, contactVars, selectVars, raceVars, detailsVars, dobVars, policyVars, garagingVars, coverageVars, sessionVars, countVars, addVars >>
  \/ AgreementCheckboxMissing
       /\ UNCHANGED << runVars, ctlVars, selVars, clickVars, typeVars, quoteVars, nameVars, panelVars, shapeVars, contVars, contactVars, selectVars, raceVars, detailsVars, dobVars, policyVars, garagingVars, coverageVars, sessionVars, countVars, addVars >>

SpecAgree == InitA /\ [][NextA]_vars

InitY ==
  /\ IdleRun
  /\ IdleCtl
  /\ IdleSel
  /\ IdleClick
  /\ IdleType
  /\ IdleQuote
  /\ IdleNames
  /\ IdlePanels
  /\ IdleShape
  /\ IdleCont
  /\ IdleContact
  /\ IdleSelect
  /\ IdleRace
  /\ IdleDetails
  /\ IdleDob
  /\ IdleAgree
  /\ InitPolicy
  /\ IdleGaraging
  /\ IdleCoverage
  /\ IdleSessions
  /\ IdleRunCount
  /\ IdleAdd

NextY ==
  \/ SelectInsured
       /\ UNCHANGED << runVars, ctlVars, selVars, clickVars, typeVars, quoteVars, nameVars, panelVars, shapeVars, contVars, contactVars, selectVars, raceVars, detailsVars, dobVars, agreeVars, garagingVars, coverageVars, sessionVars, countVars, addVars >>
  \/ SetStartDate
       /\ UNCHANGED << runVars, ctlVars, selVars, clickVars, typeVars, quoteVars, nameVars, panelVars, shapeVars, contVars, contactVars, selectVars, raceVars, detailsVars, dobVars, agreeVars, garagingVars, coverageVars, sessionVars, countVars, addVars >>
  \/ NoStartDateField
       /\ UNCHANGED << runVars, ctlVars, selVars, clickVars, typeVars, quoteVars, nameVars, panelVars, shapeVars, contVars, contactVars, selectVars, raceVars, detailsVars, dobVars, agreeVars, garagingVars, coverageVars, sessionVars, countVars, addVars >>
  \/ PolicyContinue
       /\ UNCHANGED << runVars, ctlVars, selVars, clickVars, typeVars, quoteVars, nameVars, panelVars, shapeVars, contVars, contactVars, selectVars, raceVars, detailsVars, dobVars, agreeVars, garagingVars, coverageVars, sessionVars, countVars, addVars >>

SpecPolicy == InitY /\ [][NextY]_vars

InitG ==
  /\ IdleRun
  /\ IdleCtl
  /\ IdleSel
  /\ IdleClick
  /\ IdleType
  /\ IdleQuote
  /\ IdleNames
  /\ IdlePanels
  /\ IdleShape
  /\ IdleCont
  /\ IdleContact
  /\ IdleSelect
  /\ IdleRace
  /\ IdleDetails
  /\ IdleDob
  /\ IdleAgree
  /\ IdlePolicy
  /\ InitGaraging
  /\ IdleCoverage
  /\ IdleSessions
  /\ IdleRunCount
  /\ IdleAdd

NextG ==
  \/ SelectGaraged
       /\ UNCHANGED << runVars, ctlVars, selVars, clickVars, typeVars, quoteVars, nameVars, panelVars, shapeVars, contVars, contactVars, selectVars, raceVars, detailsVars, dobVars, agreeVars, policyVars, coverageVars, sessionVars, countVars, addVars >>
  \/ HandleGaragingAddress
       /\ UNCHANGED << runVars, ctlVars, selVars, clickVars, typeVars, quoteVars, nameVars, panelVars, shapeVars, contVars, contactVars, selectVars, raceVars, detailsVars, dobVars, agreeVars, policyVars, coverageVars, sessionVars, countVars, addVars >>
  \/ SelectLengthOfOwnership
       /\ UNCHANGED << runVars, ctlVars, selVars, clickVars, typeVars, quoteVars, nameVars, panelVars, shapeVars, contVars, contactVars, selectVars, raceVars, detailsVars, dobVars, agreeVars, policyVars, coverageVars, sessionVars, countVars, addVars >>
  \/ ClickUsageContinue
       /\ UNCHANGED << runVars, ctlVars, selVars, clickVars, typeVars, quoteVars, nameVars, panelVars, shapeVars, contVars, contactVars, selectVars, raceVars, detailsVars, dobVars, agreeVars, policyVars, coverageVars, sessionVars, countVars, addVars >>

SpecGaraging == InitG /\ [][NextG]_vars

InitV ==
  /\ IdleRun
  /\ IdleCtl
  /\ IdleSel
  /\ IdleClick
  /\ IdleType
  /\ IdleQuote
  /\ IdleNames
  /\ IdlePanels
  /\ IdleShape
  /\ IdleCont
  /\ IdleContact
  /\ IdleSelect
  /\ IdleRace
  /\ IdleDetails
  /\ IdleDob
  /\ IdleAgree
  /\ IdlePolicy
  /\ IdleGaraging
  /\ InitCoverage
  /\ IdleSessions
  /\ IdleRunCount
  /\ IdleAdd

NextV ==
  \/ ClickCoveragePackage
       /\ UNCHANGED << runVars, ctlVars, selVars, clickVars, typeVars, quoteVars, nameVars, panelVars, shapeVars, contVars, contactVars, selectVars, raceVars, detailsVars, dobVars, agreeVars, policyVars, garagingVars, sessionVars, countVars, addVars >>
  \/ CoverageContinue
       /\ UNCHANGED << runVars, ctlVars, selVars, clickVars, typeVars, quoteVars, nameVars, panelVars, shapeVars, contVars, contactVars, selectVars, raceVars, detailsVars, dobVars, agreeVars, policyVars, garagingVars, sessionVars, countVars, addVars >>

SpecCoverage == InitV /\ [][NextV]_vars

InitZ ==
  /\ IdleRun
  /\ IdleCtl
  /\ IdleSel
  /\ IdleClick
  /\ IdleType
  /\ IdleQuote
  /\ IdleNames
  /\ IdlePanels
  /\ IdleShape
  /\ IdleCont
  /\ IdleContact
  /\ IdleSelect
  /\ IdleRace
  /\ IdleDetails
  /\ IdleDob
  /\ IdleAgree
  /\ IdlePolicy
  /\ IdleGaraging
  /\ IdleCoverage
  /\ InitSessions
  /\ IdleRunCount
  /\ IdleAdd

NextZ ==
  \/ SessionStep
       /\ UNCHANGED << runVars, ctlVars, selVars, clickVars, typeVars, quoteVars, nameVars, panelVars, shapeVars, contVars, contactVars, selectVars, raceVars, detailsVars, dobVars, agreeVars, policyVars, garagingVars, coverageVars, countVars, addVars >>

SpecSessions == InitZ /\ [][NextZ]_vars

InitU ==
  /\ IdleRun
  /\ IdleCtl
  /\ IdleSel
  /\ IdleClick
  /\ IdleType
  /\ IdleQuote
  /\ IdleNames
  /\ IdlePanels
  /\ IdleShape
  /\ IdleCont
  /\ IdleContact
  /\ IdleSelect
  /\ IdleRace
  /\ IdleDetails
  /\ IdleDob
  /\ IdleAgree
  /\ IdlePolicy
  /\ IdleGaraging
  /\ IdleCoverage
  /\ IdleSessions
  /\ InitRunCount
  /\ IdleAdd

NextU ==
  \/ RunFillFirstStep
       /\ UNCHANGED << runVars, ctlVars, selVars, clickVars, typeVars, quoteVars, nameVars, panelVars, shapeVars, contVars, contactVars, selectVars, raceVars, detailsVars, dobVars, agreeVars, policyVars, garagingVars, coverageVars, sessionVars, addVars >>
  \/ RunVehicleIteration
       /\ UNCHANGED << runVars, ctlVars, selVars, clickVars, typeVars, quoteVars, nameVars, panelVars, shapeVars, contVars, contactVars, selectVars, raceVars, detailsVars, dobVars, agreeVars, policyVars, garagingVars, coverageVars, sessionVars, addVars >>
  \/ RunVehicleLoopExit
       /\ UNCHANGED << runVars, ctlVars, selVars, clickVars, typeVars, quoteVars, nameVars, panelVars, shapeVars, contVars, contactVars, selectVars, raceVars, detailsVars, dobVars, agreeVars, policyVars, garagingVars, coverageVars, sessionVars, addVars >>
  \/ RunDriverIteration
       /\ UNCHANGED << runVars, ctlVars, selVars, clickVars, typeVars, quoteVars, nameVars, panelVars, shapeVars, contVars, contactVars, selectVars, raceVars, detailsVars, dobVars, agreeVars, policyVars, garagingVars, coverageVars, sessionVars, addVars >>
  \/ RunDriverLoopExit
       /\ UNCHANGED << runVars, ctlVars, selVars, clickVars, typeVars, quoteVars, nameVars, panelVars, shapeVars, contVars, contactVars, selectVars, raceVars, detailsVars, dobVars, agreeVars, policyVars, garagingVars, coverageVars, sessionVars, addVars >>
  \/ RunStageTest
       /\ UNCHANGED << runVars, ctlVars, selVars, clickVars, typeVars, quoteVars, nameVars, panelVars, shapeVars, contVars, contactVars, selectVars, raceVars, detailsVars, dobVars, agreeVars, policyVars, garagingVars, coverageVars, sessionVars, addVars >>
  \/ RunReadinessCheck
       /\ UNCHANGED << runVars, ctlVars, selVars, clickVars, typeVars, quoteVars, nameVars, panelVars, shapeVars, contVars, contactVars, selectVars, raceVars, detailsVars, dobVars, agreeVars, policyVars, garagingVars, coverageVars, sessionVars, addVars >>
  \/ RunReadinessExit
       /\ UNCHANGED << runVars, ctlVars, selVars, clickVars, typeVars, quoteVars, nameVars, panelVars, shapeVars, contVars, contactVars, selectVars, raceVars, detailsVars, dobVars, agreeVars, policyVars, garagingVars, coverageVars, sessionVars, addVars >>
  \/ RunReturnsFinal
       /\ UNCHANGED << runVars, ctlVars, selVars, clickVars, typeVars, quoteVars, nameVars, panelVars, shapeVars, contVars, contactVars, selectVars, raceVars, detailsVars, dobVars, agreeVars, policyVars, garagingVars, coverageVars, sessionVars, addVars >>

SpecRunCount == InitU /\ [][NextU]_vars

\* The run under weak fairness: a call that can return does return.
SpecRunFair == SpecRunCount /\ WF_vars(NextU)

InitE ==
  /\ IdleRun
  /\ IdleCtl
  /\ IdleSel
  /\ IdleClick
  /\ IdleType
  /\ IdleQuote
  /\ IdleNames
  /\ IdlePanels
  /\ IdleShape
  /\ IdleCont
  /\ IdleContact
  /\ IdleSelect
  /\ IdleRace
  /\ IdleDetails
  /\ IdleDob
  /\ IdleAgree
  /\ IdlePolicy
  /\ IdleGaraging
  /\ IdleCoverage
  /\ IdleSessions
  /\ IdleRunCount
  /\ InitAdd

NextE ==
  \/ AddAdditionalRecord
       /\ UNCHANGED << runVars, ctlVars, selVars, clickVars, typeVars, quoteVars, nameVars, panelVars, shapeVars, contVars, contactVars, selectVars, raceVars, detailsVars, dobVars, agreeVars, policyVars, garagingVars, coverageVars, sessionVars, countVars >>
  \/ AddLoopEnds
       /\ UNCHANGED << runVars, ctlVars, selVars, clickVars, typeVars, quoteVars, nameVars, panelVars, shapeVars, contVars, contactVars, selectVars, raceVars, detailsVars, dobVars, agreeVars, policyVars, garagingVars, coverageVars, sessionVars, countVars >>

SpecAdd == InitE /\ [][NextE]_vars

(***************************************************************************)
(* Claims about the funnel state machine (specification Spec).             *)
(***************************************************************************)

\* C1: whenever a stage handler dispatched in a run has returned
\* success = false, the run has returned, and what it returned is that
\* handler's failure result: the run did not go on to another test or handler.
C1_FailureEndsRun ==
  (lastCall.handler \in ConditionalStages /\ ~lastCall.success)
    => /\ pc = "done"
       /\ result.returned
       /\ ~result.success
       /\ result.step = lastCall.step

\* C2: when the run has returned and quotes were extracted during it, the
\* returned result carries those quotes, on every exit path.
C2_QuotesOnEveryExit ==
  (pc = "done" /\ storedQuotes.found) => result.quotes = storedQuotes

\* C3: a run that returned success (step all_steps_completed) is a run whose
\* last handler was the ThankYou handler: success is never returned for a run
\* that did not reach the ThankYou stage.
C3_SuccessOnlyAfterThankYou ==
  (pc = "done" /\ result.success)
    => /\ result.step = "all_steps_completed"
       /\ lastCall.handler = "ThankYou"
       /\ lastCall.success

\* C4: a stage handler is only ever entered when its stage comes strictly
\* after the stage of the handler that ran last in the same run: the dispatched
\* handlers are strictly increasing in the stage order, none is entered twice.
C4_StagesStrictlyIncrease ==
  pc \in {"handleMulti", "handleCond"} => Rank(stage) > Rank(lastCall.handler)

\* C5: for the page snapshot a detection test reads (one location, one set of
\* markers), at most one stage-detection predicate holds.
C5_DetectionExclusive ==
  pc = "detect" =>
    Cardinality({h \in ConditionalStages :
                   Detects(h, currentUrl, page.markers)}) <= 1

\* C19: when the wait for the QuoteResults page times out, the run does not
\* end: the fallback extraction is part of that step, the quotes it found (if
\* any) are stored, and the run goes on to the ContactMethod test; the final
\* result of a completed run carries the stored quotes.
C19_QuoteTimeoutIsNotFatal ==
  /\ [][(pc = "detect" /\ stage = "QuoteResults" /\ pc' # "handleCond")
          => /\ pc' = "detect"
             /\ stage' = "ContactMethod"
             /\ ~result'.returned
             /\ storedQuotes'.found \/ storedQuotes' = storedQuotes]_vars
  /\ []((pc = "done" /\ result.success) => result.quotes = storedQuotes)

\* C19 witness: the run is at the ContactMethod test with quotes stored by
\* the fallback extraction (handleQuoteResultsStep was never dispatched).
C19_FallbackFoundQuotes ==
  /\ pc = "detect"
  /\ stage = "ContactMethod"
  /\ storedQuotes.found
  /\ lastCall.handler # "QuoteResults"

\* C21: a stage handler is running only while its stage's detection test
\* holds (handleMultiVehicleStep tests the live location, handleConditionalSteps
\* its local currentUrl, both the live markers); and a run in which no stage
\* handler was dispatched after Personal Info, and whose additional-vehicle and
\* additional-driver steps did not fail, returns success=true.
C21_DispatchOnlyWhenDetected ==
  /\ pc = "handleMulti" => Detects(stage, page.url, page.markers)
  /\ pc = "handleCond" => Detects(stage, currentUrl, page.markers)
  /\ ( /\ pc = "done"
       /\ lastCall.handler = "PersonalInfo"
       /\ lastCall.success
       /\ result.step \notin {"add_vehicle_error", "add_driver_error"} )
       => result.success

\* C21 witness: the run ended on the address-confirmation interstitial, which
\* no stage test matches: nothing was dispatched and the run returned success.
C21_NothingDetectedSucceeds ==
  /\ pc = "done"
  /\ lastCall.handler = "PersonalInfo"
  /\ "#addressConfirmsection" \in page.markers
  /\ result.success
  /\ result.step = "all_steps_completed"

(***************************************************************************)
(* Claims about the controller (SpecCtl).                                  *)
(***************************************************************************)

\* C6: when an invocation of submitInsuranceForm, submitCompleteForm or
\* debugFormFill has finished and a browser was launched in it, the browser
\* has been closed, whichever way the invocation ended (response sent, or an
\* exception thrown out of the catch block).
C6_BrowserReleased ==
  (cpc = "done" /\ launched) => browser = "closed"

\* C6 witness: an invocation that launched a browser, whose catch block threw,
\* has finished with the browser closed.
C6_ReleasedAfterCatchThrew ==
  /\ cpc = "done"
  /\ launched
  /\ rejected
  /\ browser = "closed"

\* C7: a finished invocation of submitCompleteForm has sent exactly one
\* response, also when automator.initialize() threw.
C7_ExactlyOneResponse ==
  (cpc = "done" /\ req.endpoint = "submitCompleteForm") => Len(responses) = 1

\* C8: for a request to submitCompleteForm whose applicant data has no
\* non-blank email, no browser is launched, no navigation occurs, and the
\* response is a validation failure whose errors contain 'Email is required'.
C8_NoEmailNoBrowser ==
  (/\ cpc # "idle"
   /\ req.endpoint = "submitCompleteForm"
   /\ applicantOf(req) # Absent
   /\ IsBlank(applicantOf(req).email))
    => /\ ~launched
       /\ ~navigated
       /\ cpc = "done" =>
            /\ Len(responses) = 1
            /\ responses[1].status = 400
            /\ "Email is required" \in responses[1].errors

(***************************************************************************)
(* Claims about the make and model dropdowns (SpecSel).                    *)
(***************************************************************************)

\* C9: when one option matches the wanted make or model exactly (text or
\* value, case-insensitively) and another option, with a text, matches only
\* as a substring, the option selected is an exact match, whatever the order
\* of the options.
C9_ExactMatchPreferred ==
  (/\ routine \in {"handleVehicleDetailsForm", "fillAdditionalVehicleDetails"}
   /\ \E a, b \in 1..Len(options) :
        /\ ExactMatch(options[a], toLowerCase(wanted))
        /\ ~ExactMatch(options[b], toLowerCase(wanted))
        /\ options[b].text # ""
        /\ PartialMatch(options[b], toLowerCase(wanted)))
    => /\ Len(selectCalls) = 1
       /\ \E k \in 1..Len(options) :
            /\ options[k].value = selectCalls[1]
            /\ ExactMatch(options[k], toLowerCase(wanted))

\* C10: when no option matches the wanted make or model, exactly or as a
\* substring of a text in either direction, handleVehicleDetailsForm fails,
\* selects nothing (not even a placeholder option with an empty text), and
\* its error message lists the text of every option.
C10_NoMatchFailsListingOptions ==
  (/\ routine = "handleVehicleDetailsForm"
   /\ \A k \in 1..Len(options) :
        /\ ~ExactMatch(options[k], toLowerCase(wanted))
        /\ options[k].text # "" => ~PartialMatch(options[k], toLowerCase(wanted)))
    => /\ ~outcome.success
       /\ selectCalls = << >>
       /\ \A k \in 1..Len(options) :
            \E j \in 1..Len(outcome.error) : outcome.error[j] = options[k].text

(***************************************************************************)
(* Claims about clickButton (SpecClick).                                   *)
(***************************************************************************)

\* C11: clickButton runs the click methods in the order standard click,
\* script click, mouse click, form submission, and stops at the first that
\* succeeds: when it returns true the method that clicked is the last one
\* run and every method before it failed (so after methods 1 and 2 failed
\* and method 3 succeeded, method 4 is never run); once a click method has
\* been run, it throws only after all four were run and failed.
C11_FirstSuccessfulMethodWins ==
  LET attempts == SelectSeq(clickLog, LAMBDA e : e # "scrollIntoView")
  IN  /\ Len(attempts) <= Len(ClickMethods)
      /\ \A k \in 1..Len(attempts) : attempts[k] = ClickMethods[k]
      /\ clickOutcome.returned = "true" =>
           /\ Len(attempts) >= 1
           /\ clickOutcome.method = attempts[Len(attempts)]
           /\ Len(clickErrors) = Len(attempts) - 1
      /\ (clickOutcome.returned = "threw" /\ Len(attempts) > 0) =>
           /\ Len(attempts) = Len(ClickMethods)
           /\ Len(clickErrors) = Len(ClickMethods)

\* C11 witness: methods 1 and 2 failed, method 3 clicked, method 4 never ran.
C11_ThirdMethodClicked ==
  /\ clickPc = "done"
  /\ clickOutcome.returned = "true"
  /\ clickOutcome.method = "mouse_click"
  /\ Len(clickErrors) = 2
  /\ \A k \in 1..Len(clickLog) : clickLog[k] # "form_submit"

\* C12: when all four click methods failed, the message of the Error thrown
\* names the failure message of each of the four.
C12_ErrorNamesEveryFailure ==
  (clickOutcome.returned = "threw" /\ Len(clickErrors) = Len(ClickMethods))
    => \A k \in 1..Len(clickErrors) :
         \E j \in 1..Len(clickOutcome.message) :
           clickOutcome.message[j] = clickErrors[k]

\* C13: an element that does not exist, is not visible or is disabled makes
\* clickButton throw with no click method run and no scroll; the element is
\* scrolled into view only when it passed the probe and is outside the
\* viewport, once, and before the first click method.
C13_ProbeGuardsClicksAndScroll ==
  LET fails == \/ ~element.appears
               \/ ~element.exists
               \/ ~element.visible
               \/ ~element.enabled
      scrolls == {k \in 1..Len(clickLog) : clickLog[k] = "scrollIntoView"}
  IN  clickPc # "idle" =>
        /\ fails => /\ clickLog = << >>
                    /\ clickPc = "done" => clickOutcome.returned = "threw"
        /\ scrolls # {} => /\ ~fails
                           /\ ~element.inViewport
                           /\ scrolls = {1}
        /\ (~fails /\ ~element.inViewport /\ clickLog # << >>)
             => clickLog[1] = "scrollIntoView"

\* C13 witness: an enabled, visible element outside the viewport was scrolled
\* into view and then clicked.
C13_ScrolledThenClicked ==
  /\ clickPc = "done"
  /\ clickOutcome.returned = "true"
  /\ Len(clickLog) >= 2
  /\ clickLog[1] = "scrollIntoView"

(***************************************************************************)
(* Claims about clearAndType (SpecType).                                   *)
(***************************************************************************)

\* C14: a call of clearAndType returns true only if the field then holds
\* exactly the requested text; when the field ends up holding something
\* else the call returns false.
C14_TrueOnlyIfFieldHoldsText ==
  \A k \in 1..Len(returns) : returns[k] => held[k] = textValue(text)

C17_IndexBelowQuotesFound ==
  (quotePc = "done" /\ ~payload.isNull)
    => \A k \in 1..Len(payload.quotes) :
         payload.quotes[k].index < payload.quotesFound

\* C18: an extraction runs only after the wait for a priced panel has
\* succeeded, never after a wait that timed out.
C18_ExtractionOnlyAfterPricedWait ==
  \A k \in 1..Len(quoteLog) :
    quoteLog[k] \in {"extract_handleQuoteResultsStep",
                     "extract_extractQuotesFromCurrentPage"}
      => /\ \E j \in 1..(k - 1) : quoteLog[j] = "priced_panel_shown"
         /\ \A j \in 1..(k - 1) :
              quoteLog[j] \notin {"results_page_timeout", "pgResults_timeout",
                                  "priced_panel_timeout"}

\* C20 as stated: without quote panels, the extractor reports every currency
\* token of the page text, tagged as a plausible premium exactly when its
\* value v has 50 < v < 2000 and with another tag otherwise.
C20_TokensReportedByWindow ==
  (/\ quotePc = "done"
   /\ quoteLog[Len(quoteLog)] = "extract_extractQuotesFromCurrentPage"
   /\ Len(results.panels) = 0)
    => \A v \in results.tokens :
         \E k \in 1..Len(payload.quotes) :
           /\ payload.quotes[k].value = v
           /\ (payload.quotes[k].tag = "plausible_premium")
                <=> (50 < v /\ v < 2000)

\* C20 as amended: without quote panels, extractQuotesFromCurrentPage
\* reports nothing (it returns null), whatever currency tokens the page
\* text holds.
C20_NoPanelsNoQuotes ==
  (/\ quotePc = "done"
   /\ quoteLog[Len(quoteLog)] = "extract_extractQuotesFromCurrentPage"
   /\ Len(results.panels) = 0)
    => payload = NullPayload

\* C20 witness: the fallback extractor ran on a page without panels whose
\* text holds a currency token inside the window and one outside it.
C20_TokensButNoPanels ==
  /\ quotePc = "done"
  /\ quoteLog[Len(quoteLog)] = "extract_extractQuotesFromCurrentPage"
  /\ Len(results.panels) = 0
  /\ results.tokens = TextTokens

(***************************************************************************)
(* Claims about the primary driver's identity fields (SpecNames).          *)
(***************************************************************************)

\* C22: the Driver Info handler never writes the name of the driver at index 0
\* into #drvFirstName or #drvLastName: the primary driver's identity fields
\* are written on the Personal Info page only.
C22_PrimaryNameOnlyOnPersonalInfo ==
  \A w \in nameWrites :
    /\ w.selector = "#drvFirstName" => w.text # primaryDriver.firstName
    /\ w.selector = "#drvLastName" => w.text # primaryDriver.lastName

(***************************************************************************)
(* Claims about the conditional sub-panels (SpecPanels).                   *)
(***************************************************************************)

\* C23: a conditional sub-panel control is set only if its panel was observed
\* visible in that invocation: a panel that was hidden, missing or whose probe
\* threw has no select on its control, whatever the caller supplied.
C23_SelectOnlyIfPanelSeenVisible ==
  \A k \in 1..Len(PanelsOf(panelHandler)) :
    LET e == PanelsOf(panelHandler)[k]
    IN (\E n \in 1..Len(panelSelects) : panelSelects[n].control = e.control)
         => panelSeen[e.panel] = "shown"

\* C23 witness: the handler returned, the caller supplied a value for every
\* control, one panel's probe threw, one was hidden or missing and its control
\* was left alone, and a visible panel's control was set.
C23_SuppliedButNotVisible ==
  /\ panelPc = "returned"
  /\ \A key \in PanelKeys(panelHandler) : Truthy(panelData[key])
  /\ \E p \in PanelNames(panelHandler) : panelSeen[p] = "throws"
  /\ \E p \in PanelNames(panelHandler) : panelSeen[p] \in {"none", "missing"}
  /\ Len(panelSelects) = 1

(***************************************************************************)
(* Claims about the input shapes of submitCompleteForm (SpecShape).        *)
(***************************************************************************)

\* C24: the vehicle list passed to the core is vehicles when it is an array,
\* otherwise [vehicleData] when vehicleData is given, otherwise []; the driver
\* list passed is drivers when it is an array, otherwise [driverData] when
\* driverData is given; and when that list is empty and userData is given it
\* is [userData].
C24_ListsNormalized ==
  coreCall.called =>
    LET Given(v) == v.kind \notin {"undefined", "null"}
        b == body
        ds == IF b.drivers.kind = "array" THEN b.drivers.items
              ELSE IF Given(b.driverData) THEN << b.driverData >>
              ELSE << >>
    IN /\ b.vehicles.kind = "array" => coreCall.vehicles = b.vehicles.items
       /\ (b.vehicles.kind # "array" /\ Given(b.vehicleData))
            => coreCall.vehicles = << b.vehicleData >>
       /\ (b.vehicles.kind # "array" /\ ~Given(b.vehicleData))
            => coreCall.vehicles = << >>
       /\ (ds = << >> /\ Given(b.userData)) => coreCall.drivers = << b.userData >>
       /\ ~(ds = << >> /\ Given(b.userData)) => coreCall.drivers = ds

\* C24 witness: a legacy request (vehicles set but not an array, vehicleData
\* given) with an empty drivers array and userData reached the core with
\* [vehicleData] and [userData].
C24_LegacyShapesReachCore ==
  /\ coreCall.called
  /\ body.vehicles = JsString
  /\ body.vehicleData \in JsObjects
  /\ body.drivers = [kind |-> "array", items |-> << >>]
  /\ body.userData \in JsObjects
  /\ coreCall.vehicles = << body.vehicleData >>
  /\ coreCall.drivers = << body.userData >>

(***************************************************************************)
(* Claims about continuation controls (SpecCont).                          *)
(***************************************************************************)

\* C25: a handler that returned success=true delivered, in that invocation, a
\* click on its continuation control; none returns success when the control
\* was absent or no click was delivered.
C25_SuccessOnlyAfterContinuation ==
  (contResult.returned /\ contResult.success) => contClicks # << >>

(***************************************************************************)
(* Claims about handleContactMethodStep (SpecContact).                     *)
(***************************************************************************)

\* C26: when the handler has gone through its strategies, the click went to a
\* visible control matching the caller's preference whenever one exists, also
\* when hidden elements precede it in the document; when none matches and at
\* least two visible controls exist, the first visible control was clicked for
\* a phone preference and the second for an email preference.
C26_ClickGoesToPreferredControl ==
  (contactResult.returned /\ contactResult.step # "contact_method_error") =>
    LET vis == VisiblePositions(clickables, 1)
        matching == {k \in 1..Len(clickables) :
                       /\ clickables[k].visible
                       /\ MatchesPreference(clickables[k].text,
                                            contactPreference)}
    IN /\ matching # {} => contactClick \in matching
       /\ (matching = {} /\ Len(vis) >= 2) =>
            contactClick = IF isPhonePreference(contactPreference)
                           THEN vis[1] ELSE vis[2]

(***************************************************************************)
(* Claims about quote selection (SpecSelect).                              *)
(***************************************************************************)

\* C27: when selectQuote is a number i, a selection click is delivered only if
\* i is less than the number of extracted quotes, and it is delivered to the
\* select control at position i, not to another quote's control.
C27_ClickGoesToSelectedQuote ==
  (selectQuote.kind = "number" /\ selectClick.delivered) =>
    /\ selectQuote.n < quoteCount
    /\ selectClick.button = selectQuote.n

(***************************************************************************)
(* Claims about the readiness race of fillFirstStep (SpecRace).            *)
(***************************************************************************)

\* C28: the race fails only if no probe resolves positively: a probe that
\* rejected before another probe resolved does not make the race fail.
C28_RaceFailsOnlyIfNoProbeResolves ==
  formReady = "rejected" => \A p \in ProbeIds : probes[p] # "resolved"

(***************************************************************************)
(* Claims about the waits of handleVehicleDetailsForm (SpecDetails).       *)
(***************************************************************************)

\* C29: a make is matched only after the make dropdown was observed populated
\* following the year selection, a model only after the model dropdown was
\* observed populated following the make selection: matching never runs
\* against a dropdown whose population wait timed out.
C29_MatchOnlyAfterPopulated ==
  \A n \in 1..Len(matchLog) :
    matchLog[n].wait # "none" => matchLog[n].wait = "populated"

\* C30: #pg1btn is clicked only after it was observed to exist and be enabled;
\* when it is missing or does not become enabled within the timeout, the
\* handler returns a failure without any click on it.
C30_ClickOnlyAfterEnabled ==
  /\ continueClicks > 0 => buttonSeen = "enabled"
  /\ buttonSeen \in {"missing", "timeout"} =>
       /\ continueClicks = 0
       /\ detailsResult.returned
       /\ ~detailsResult.success

\* C30 witness: the button stayed disabled through the wait and the handler
\* returned a failure without clicking it.
C30_DisabledButtonNotClicked ==
  /\ button = "disabled"
  /\ buttonSeen = "timeout"
  /\ continueClicks = 0
  /\ detailsResult = DetailsFailure

(***************************************************************************)
(* Claims about the date of birth in handleDriverInformationStep (SpecDob).*)
(***************************************************************************)

\* C31 as stated: the methods run in the order ISO, locale, typed; each method
\* that ran was followed by a read-back; a later method ran only if every
\* earlier read-back was empty or held the sentinel 1753.
C31_LadderByReadBack ==
  \A n \in 1..Len(dobLog) :
    /\ dobLog[n].method = << "iso", "locale", "typed" >>[n]
    /\ dobLog[n].readback # "none"
    /\ \A m \in 1..(n - 1) : ~DobAccepted(dobLog[m].readback)

\* C31 amended: the methods run in the order ISO, locale, typed; a later
\* method ran only if every earlier method threw or had its read-back
\* rejected (empty or holding 1753); no method ran after an accepted
\* read-back, and dobSet holds exactly when the last read-back was accepted.
C31_LadderByReadBackOrThrow ==
  /\ \A n \in 1..Len(dobLog) :
       /\ dobLog[n].method = << "iso", "locale", "typed" >>[n]
       /\ \A m \in 1..(n - 1) :
            \/ dobLog[m].readback = "none"
            \/ ~DobAccepted(dobLog[m].readback)
  /\ dobSet <=> /\ dobLog # << >>
                /\ dobLog[Len(dobLog)].readback # "none"
                /\ DobAccepted(dobLog[Len(dobLog)].readback)

\* C31 witness: the ISO method threw, the locale read-back held the sentinel
\* and the typed read-back was accepted.
C31_ThirdMethodAccepted ==
  /\ Len(dobLog) = 3
  /\ dobLog[1].readback = "none"
  /\ dobLog[2].readback = "1753-01-01"
  /\ dobLog[2].entered = "05/15/1990"
  /\ DobAccepted(dobLog[3].readback)
  /\ dobSet

\* C39: a date of birth that could not be set (no #drvDOB, or all three
\* methods rejected) does not fail the handler: it goes on to the remaining
\* fields and the continue click, and a failure it returns comes from those.
C39_UnsetDobIsNotFatal ==
  (~dobSet /\ drvResult.returned) =>
    \/ drvResult.success
    \/ drvFailedIn \in {"fields", "continue"}

\* C39 witness: all three methods were rejected, the field holds the sentinel
\* and the handler returned success.
C39_SuccessWithSentinel ==
  /\ Len(dobLog) = 3
  /\ ~dobSet
  /\ dobValue = "1753-01-01"
  /\ drvResult.returned
  /\ drvResult.success

(***************************************************************************)
(* Claims about handleAgreementCheckbox (SpecAgree).                       *)
(***************************************************************************)

\* C32: nothing is tried on a control that is already checked; the control is
\* reported checked only if it is checked at the return; and the strategies
\* are tried in order, the next one whenever the previous one left the control
\* unchecked or threw: a handler that returns with the control unchecked has
\* tried the direct toggle, the label click and the programmatic assignment.
C32_FallsBackWhileUnchecked ==
  agreePc = "returned" =>
    /\ agreePage.checked => agreeTried = << >>
    /\ agreeReported => agreeChecked
    /\ ~agreeChecked =>
         /\ \E n \in 1..Len(agreeTried) : agreeTried[n] = "direct"
         /\ \E n \in 1..Len(agreeTried) : agreeTried[n] = "label"
         /\ \E n \in 1..Len(agreeTried) : agreeTried[n] = "assign"

\* C33: in handlePolicyInformationStep the prior-insurance fields are
\* written only when policyInfo.currentlyInsured is true (truthy), the
\* no-insurance reason only when it is false (falsy and not undefined), the
\* two never both in one invocation, and neither when the insured panel is
\* not visible or currentlyInsured is undefined.
C33_InsuredBranchesExclusive ==
  /\ "#PriorCarrier" \in polWrites =>
       InsuredTruthy(policyInfo.currentlyInsured)
  /\ "#ReasonNoInsurance" \in polWrites =>
       ~InsuredTruthy(policyInfo.currentlyInsured)
  /\ ~({"#PriorCarrier", "#ReasonNoInsurance"} \subseteq polWrites)
  /\ (insuredPan # "visible" \/ policyInfo.currentlyInsured = JsUndefined)
       => polWrites \cap {"#Insured", "#PriorCarrier", "#ReasonNoInsurance"}
            = {}

\* C33 witness: the reason was written for an uninsured caller whose
\* prior carrier was supplied as well.
C33_ReasonWritten ==
  /\ polPc = "done"
  /\ policyInfo.currentlyInsured = [kind |-> "boolean", b |-> FALSE]
  /\ policyInfo.priorCarrier
  /\ "#ReasonNoInsurance" \in polWrites

\* C38: with #startDate on the page and min <= max, the ISO date assigned
\* to the field is not before min and not after max, and it is the
\* requested date (startDate, or today without one) when that lies in
\* [min, max].
C38_StartDateWithinBounds ==
  (/\ polAssigned # NoDate
   /\ startDateField.min # NoDate
   /\ startDateField.max # NoDate
   /\ DayNumber(startDateField.min) <= DayNumber(startDateField.max))
  => LET requested == IF policyInfo.startDate # NoDate
                      THEN policyInfo.startDate ELSE today
     IN  /\ DayNumber(startDateField.min) <= DayNumber(polAssigned)
         /\ DayNumber(polAssigned) <= DayNumber(startDateField.max)
         /\ (/\ DayNumber(startDateField.min) <= DayNumber(requested)
             /\ DayNumber(requested) <= DayNumber(startDateField.max))
            => polAssigned = requested

\* C38 witness: a requested date after max was assigned as max.
C38_ClampedToMax ==
  /\ polAssigned # NoDate
  /\ policyInfo.startDate # NoDate
  /\ startDateField.min # NoDate
  /\ startDateField.max # NoDate
  /\ DayNumber(startDateField.min) < DayNumber(startDateField.max)
  /\ DayNumber(policyInfo.startDate) > DayNumber(startDateField.max)
  /\ polAssigned = startDateField.max

\* C34: a failure inside the garaging-address dialog fails only
\* handleGaragingAddress: handleVehicleUsageStep goes on to the remaining
\* panels and the continue click, and its result is a failure only when one
\* of its own operations threw; the dialog is entered only when the garaged
\* panel is visible, garaged differs from '0' and a garaging address was
\* supplied.
C34_GaragingFailureIsSoft ==
  /\ InSeq("#garagingAddressPan", usageLog) =>
       /\ garagedPan
       /\ garaged # "0"
       /\ garagingAddress # Absent
  /\ garagingFailed => usagePc \in {"length", "continue", "done"}
  /\ (garagingFailed /\ usagePc \in {"continue", "done"}) =>
       InSeq("#vehLenOfOwnershipPan", usageLog)
  /\ (garagingFailed /\ usagePc = "done" /\ usageThrewAt = "none") =>
       /\ InSeq("#pg2btn", usageLog)
       /\ usageResult = UsageResult(TRUE)
  /\ (usagePc = "done" /\ usageResult = UsageResult(FALSE)) =>
       usageThrewAt # "none"

\* C34 witness: the dialog never appeared and the step returned success
\* after the continue click.
C34_TimedOutDialogThenSuccess ==
  /\ usagePc = "done"
  /\ garagingFailed
  /\ garagingFailure = "#garagingAddressPan"
  /\ InSeq("#pg2btn", usageLog)
  /\ usageResult = UsageResult(TRUE)

\* C35: handleCoverageOptionsStep maps Basic to Basic, Standard and
\* Enhanced to Standard, Premium and Optimal to Optimal and every other
\* word, a missing one included, to Standard; the package it clicks is one
\* of the page's select buttons, and it is the mapped package whenever that
\* package is among them.
C35_ClicksMappedPackage ==
  covClicked # NoPackage =>
    LET mapped ==
          CASE coveragePreference = "Basic" -> "Basic"
            [] coveragePreference \in {"Standard", "Enhanced"} -> "Standard"
            [] coveragePreference \in {"Premium", "Optimal"} -> "Optimal"
            [] OTHER -> "Standard"
    IN  /\ InSeq(covClicked, coverageOptions)
        /\ InSeq(mapped, coverageOptions) => covClicked = mapped

\* C36: under every interleaving of overlapping requests no two runs share
\* a session: each has its own browser and page, a stage handler of a run
\* acts only on the page of that run, and close() of one run closes only
\* the browser that run launched, so a run that has not reached its own
\* close still has its browser open.
C36_SessionsAreDisjoint ==
  \A r \in Sessions :
    /\ \A q \in Sessions \ {r} :
         /\ sessBrowser[r] # NullRef => sessBrowser[r] # sessBrowser[q]
         /\ sessPage[r] # NullRef => sessPage[r] # sessPage[q]
    /\ sessPage[r] # NullRef => sessPage[r] = sessBrowser[r]
    /\ sessActedOn[r] \subseteq {sessPage[r]} \ {NullRef}
    /\ (sessBrowser[r] # NullRef /\ sessPc[r] \in {"newPage", "run", "finally"})
         => sessBrowser[r] \in openBrowsers
    /\ sessPc[r] = "closed" => sessBrowser[r] \notin openBrowsers

\* C36 witness: one run has closed its browser while the other, launched
\* before that close, has acted on its page and is still running.
C36_OneClosedOtherRunning ==
  \E r, q \in Sessions :
    /\ r # q
    /\ sessPc[r] = "closed"
    /\ sessBrowser[r] # NullRef
    /\ sessPc[q] = "run"
    /\ sessActedOn[q] # {}
    /\ sessBrowser[q] < sessBrowser[r]

\* C37: every run terminates: with each browser call returning or timing
\* out, fillMultiVehicleDriverForm returns after finitely many steps; the
\* vehicle and driver loops run at most once per supplied record and
\* exactly once per record when they run to their end, the coverage
\* readiness loop makes at most 5 checks, and no stage handler is
\* dispatched more than twice.
C37_RunTerminates ==
  /\ [](/\ vehicleIterations <= runVehicles
        /\ driverIterations <= runDrivers
        /\ runPc \in {"driverLoop", "stages", "readiness"} =>
             vehicleIterations = runVehicles
        /\ runPc \in {"stages", "readiness"} => driverIterations = runDrivers
        /\ readinessAttempts <= 5
        /\ \A s \in Stages : dispatched[s] <= 2)
  /\ <>(runPc = "done")

\* C37 witness: a run returned after the readiness loop used all of its
\* checks on a page that never became ready, with both loops run to their
\* end over more than one record.
C37_ReturnedAfterFullPoll ==
  /\ runPc = "done"
  /\ readinessAttempts = maxAttempts
  /\ ~coveragePageReady
  /\ runStage > Len(StageOrder)
  /\ vehicleIterations = MaxVehicles
  /\ driverIterations = MaxDrivers

\* C40: an additional vehicle or driver that cannot be added is not a
\* failure: a step that finds no add control, or matches no field of the
\* record, returns success and the run goes on; a step fails, and ends the
\* run, only when something threw.
C40_UnaddedRecordIsNotAFailure ==
  addLastStep # NoAddStep =>
    /\ (~addLastStep.control \/ (~addLastStep.threw /\ addLastStep.matched = {}))
         => /\ addLastStep.success
            /\ ~(addPc = "done" /\ addRunResult = AddRunResult(FALSE)
                 /\ addIndex < addSupplied)
    /\ ~addLastStep.success => addLastStep.threw
    /\ addEntered <= addSupplied

\* C40 witness: a run returned success having entered fewer records than
\* the caller supplied, its last additional record without an add control.
C40_SuccessWithFewerRecords ==
  /\ addPc = "done"
  /\ addRunResult = AddRunResult(TRUE)
  /\ addEntered < addSupplied
  /\ addLastStep # NoAddStep
  /\ ~addLastStep.control

====
